---- MODULE Spec2Model ----
(***************************************************************************)
(* Model of the skill manager, its sandbox context, the capability guard   *)
(* and the settings store of xpell-agent (packages/agent-core).            *)
(*                                                                         *)
(* JSON values are tagged records [k, v]: k is the JSON type, v the        *)
(* payload.  Objects carry a function from key strings to values.          *)
(***************************************************************************)
EXTENDS Integers, Sequences, FiniteSets, TLC

VARIABLES
    kernel_cap_secret,      \* guards: _kernel_cap_secret
    config,                 \* SkillManagerModule._config.skills
    file,                   \* the backing configuration document (agent.config.json)
    enabled,                \* SkillManagerModule._enabled, in insertion order
    activating,             \* SkillManagerModule._activating
    loaded,                 \* SkillManagerModule._loaded
    skill_to_modules,       \* SkillManagerModule._skill_to_modules
    module_to_skill,        \* SkillManagerModule._module_to_skill
    runtime_by_skill,       \* SkillManagerModule._runtime_by_skill
    settings_meta_by_skill, \* SkillManagerModule._settings_meta_by_skill
    xsettings,              \* settings root document: the "skills" bucket (JSON object keyed by skill id)
    xmodules,               \* the module registry of the dispatcher (names of loaded modules)
    contexts,               \* skill ids whose package holds a sandbox context
    dispatched,             \* commands the sandbox forwarded to the dispatcher during the last operation
    last,                   \* the last operation applied, its inputs and its result
    tasks                   \* commands suspended at an await: position, arguments and locals of each

manager_vars == <<config, file, enabled, activating, loaded, skill_to_modules, module_to_skill,
                  runtime_by_skill, xmodules, contexts, dispatched, tasks>>

vars == <<kernel_cap_secret, manager_vars, settings_meta_by_skill, xsettings, last>>

-----------------------------------------------------------------------------
(* JSON values *)

Undef == [k |-> "undef", v |-> "undef"]
Null == [k |-> "null", v |-> "null"]
Str(s) == [k |-> "str", v |-> s]
Num(n) == [k |-> "num", v |-> n]
Arr(q) == [k |-> "arr", v |-> q]
Obj(f) == [k |-> "obj", v |-> f]
EmptyObj == Obj([x \in {} |-> Undef])

MASK_SENTINEL == "********"

is_plain_object(value) == value.k = "obj"

Keys(o) == DOMAIN o.v

\* o[key] of a plain object: undefined when the key is absent
Field(o, key) == IF is_plain_object(o) /\ key \in Keys(o) THEN o.v[key] ELSE Undef

\* o[key] = value
Put(o, key, value) == Obj([x \in Keys(o) \cup {key} |-> IF x = key THEN value ELSE o.v[x]])

\* delete o[key]
Remove(o, key) == Obj([x \in Keys(o) \ {key} |-> o.v[x]])

\* part.trim() for the raw segments the model uses: " " is a blank segment
Trim(s) ==
    CASE s = " " -> ""
      [] s = " settings.get " -> "settings.get"
      [] s = " settings " -> "settings"
      [] OTHER -> s

\* A dotted path is the sequence of its raw segments (the text between dots).
split_path(path_value) ==
    LET trimmed == [i \in 1..Len(path_value) |-> Trim(path_value[i])]
    IN SelectSeq(trimmed, LAMBDA part : part # "")

RECURSIVE GetParts(_, _)
GetParts(cursor, parts) ==
    IF parts = <<>> THEN cursor
    ELSE IF ~is_plain_object(cursor) THEN Undef
    ELSE GetParts(Field(cursor, Head(parts)), Tail(parts))

getByPath(obj, dotted_path) == GetParts(obj, split_path(dotted_path))

RECURSIVE SetParts(_, _, _)
SetParts(cursor, parts, value) ==
    IF Len(parts) = 1 THEN Put(cursor, Head(parts), value)
    ELSE LET current == Field(cursor, Head(parts))
             child == IF is_plain_object(current) THEN current ELSE EmptyObj
         IN Put(cursor, Head(parts), SetParts(child, Tail(parts), value))

setByPath(obj, dotted_path, value) ==
    LET parts == split_path(dotted_path)
    IN IF parts = <<>> THEN obj ELSE SetParts(obj, parts, value)

RECURSIVE DelParts(_, _)
DelParts(cursor, parts) ==
    IF ~is_plain_object(cursor) THEN cursor
    ELSE IF Len(parts) = 1 THEN Remove(cursor, Head(parts))
    ELSE IF Head(parts) \in Keys(cursor)
         THEN Put(cursor, Head(parts), DelParts(Field(cursor, Head(parts)), Tail(parts)))
         ELSE cursor

deleteByPath(obj, dotted_path) ==
    LET parts == split_path(dotted_path)
    IN IF parts = <<>> THEN obj ELSE DelParts(obj, parts)

\* a merge that replaces every key of the patch
deepMerge_Shallow(base, patch) ==
    Obj([key \in Keys(base) \cup Keys(patch) |->
            IF key \in Keys(patch) THEN patch.v[key] ELSE base.v[key]])

RECURSIVE deepMerge(_, _)
deepMerge(base, patch) ==
    Obj([key \in Keys(base) \cup Keys(patch) |->
            IF key \notin Keys(patch) THEN base.v[key]
            ELSE IF key \in Keys(base) /\ is_plain_object(base.v[key]) /\ is_plain_object(patch.v[key])
                 THEN deepMerge(base.v[key], patch.v[key])
                 ELSE patch.v[key]])

\* the emptiness test of maskSensitive
IsEmptyValue(current) ==
    \/ current = Undef
    \/ current = Null
    \/ (current.k = "str" /\ current.v = "")
    \/ (current.k = "arr" /\ current.v = <<>>)

RECURSIVE MaskLoop(_, _, _)
MaskLoop(masked_settings, masked_map, paths) ==
    IF paths = <<>> THEN [maskedSettings |-> masked_settings, maskedMap |-> masked_map]
    ELSE LET path_value == Head(paths)
             current == getByPath(masked_settings, path_value)
         IN IF IsEmptyValue(current)
            THEN MaskLoop(masked_settings, masked_map, Tail(paths))
            ELSE MaskLoop(setByPath(masked_settings, path_value, Str(MASK_SENTINEL)),
                          masked_map \cup {path_value}, Tail(paths))

\* maskedMap is the set of paths mapped to true
maskSensitive(settings, sensitive_paths) == MaskLoop(settings, {}, sensitive_paths)

\* a loop that leaves a sentinel in the patch when nothing is stored at its path
RECURSIVE PatchLoop_NoDrop(_, _, _)
PatchLoop_NoDrop(existing, patch_copy, paths) ==
    IF paths = <<>> THEN patch_copy
    ELSE LET path_value == Head(paths)
             original == getByPath(existing, path_value)
         IN IF getByPath(patch_copy, path_value) = Str(MASK_SENTINEL) /\ original # Undef
            THEN PatchLoop_NoDrop(existing, setByPath(patch_copy, path_value, original), Tail(paths))
            ELSE PatchLoop_NoDrop(existing, patch_copy, Tail(paths))

RECURSIVE PatchLoop(_, _, _)
PatchLoop(existing, patch_copy, paths) ==
    IF paths = <<>> THEN patch_copy
    ELSE LET path_value == Head(paths)
             next == getByPath(patch_copy, path_value)
             original == getByPath(existing, path_value)
         IN IF next = Str(MASK_SENTINEL)
            THEN IF original # Undef
                 THEN PatchLoop(existing, setByPath(patch_copy, path_value, original), Tail(paths))
                 ELSE PatchLoop(existing, deleteByPath(patch_copy, path_value), Tail(paths))
            ELSE PatchLoop(existing, patch_copy, Tail(paths))

\* a write path that merges the patch as it arrived
applyPatchWithMaskHandling_Unmasked(existing, patch, sensitive_paths) ==
    deepMerge(existing, patch)

applyPatchWithMaskHandling(existing, patch, sensitive_paths) ==
    deepMerge(existing, PatchLoop(existing, patch, sensitive_paths))

-----------------------------------------------------------------------------
(* SettingsModule: the skill bucket operations *)

\* an absent entry of _settings_meta_by_skill
NoMeta == [present |-> FALSE, defaults |-> EmptyObj, sensitive |-> <<>>]

\* SettingsModule.resolve_skill_meta through SkillManagerModule.resolve_skill_settings_meta
resolve_skill_meta(meta_by_skill, skill_id) ==
    IF skill_id \in DOMAIN meta_by_skill THEN meta_by_skill[skill_id] ELSE NoMeta

\* the segments of a skill id when it is spliced into the dotted path `skills.${skill_id}`
IdSegments(skill_id) == <<skill_id>>

\* SettingsModule.get_skill_impl: the result object (settings, masked)
get_skill_impl(skills, meta_by_skill, skill_id, include_masked) ==
    LET raw_stored == getByPath(skills, IdSegments(skill_id))
        stored == IF is_plain_object(raw_stored) THEN raw_stored ELSE EmptyObj
        meta == resolve_skill_meta(meta_by_skill, skill_id)
        merged == deepMerge(meta.defaults, stored)
        masked_payload == IF include_masked
                          THEN maskSensitive(merged, meta.sensitive)
                          ELSE [maskedSettings |-> merged, maskedMap |-> {}]
    IN [skill_id |-> skill_id,
        settings |-> masked_payload.maskedSettings,
        masked |-> masked_payload.maskedMap]

\* SettingsModule.set_skill_impl: the skills bucket after the write
set_skill_impl(skills, meta_by_skill, skill_id, patch) ==
    LET meta == resolve_skill_meta(meta_by_skill, skill_id)
        existing_raw == Field(skills, skill_id)
        existing == IF is_plain_object(existing_raw) THEN existing_raw ELSE EmptyObj
        merged_stored == applyPatchWithMaskHandling(existing, patch, meta.sensitive)
    IN Put(skills, skill_id, merged_stored)

-----------------------------------------------------------------------------
(* runtime/guards: the capability guard and context extraction *)

\* {...a, ...b}
Spread(a, b) == Obj([x \in Keys(a) \cup Keys(b) |-> IF x \in Keys(b) THEN b.v[x] ELSE a.v[x]])

\* the fields of o among names whose value is a string
StringFields(o, names) == Obj([x \in {n \in names \cap Keys(o) : o.v[n].k = "str"} |-> o.v[x]])

to_ctx(value) ==
    IF ~is_plain_object(value) THEN EmptyObj
    ELSE LET actor_raw == Field(value, "actor")
             scalars == StringFields(value, {"_wid", "_sid", "kernel_cap"})
         IN IF is_plain_object(actor_raw)
            THEN Put(scalars, "actor", StringFields(actor_raw, {"user_id", "role", "channel", "source"}))
            ELSE scalars

\* xcmd?._params?._ctx
ParamsCtx(xcmd) ==
    IF is_plain_object(xcmd) /\ is_plain_object(Field(xcmd, "_params"))
    THEN Field(Field(xcmd, "_params"), "_ctx")
    ELSE Undef

\* a reader that lays the parameter-level actor over the root-level one
readCommandCtx_MergeActors(xcmd) ==
    LET root_ctx == to_ctx(IF is_plain_object(xcmd) THEN Field(xcmd, "_ctx") ELSE Undef)
        params_ctx == to_ctx(ParamsCtx(xcmd))
        merged == Spread(root_ctx, params_ctx)
    IN IF "actor" \in Keys(params_ctx) /\ "actor" \in Keys(root_ctx)
       THEN Put(merged, "actor", Spread(root_ctx.v["actor"], params_ctx.v["actor"]))
       ELSE merged

readCommandCtx(xcmd) ==
    LET root_ctx == to_ctx(IF is_plain_object(xcmd) THEN Field(xcmd, "_ctx") ELSE Undef)
        params_ctx == to_ctx(ParamsCtx(xcmd))
        merged == Spread(root_ctx, params_ctx)
    IN IF "actor" \in Keys(params_ctx) THEN Put(merged, "actor", params_ctx.v["actor"])
       ELSE IF "actor" \in Keys(root_ctx) THEN Put(merged, "actor", root_ctx.v["actor"])
       ELSE merged

\* shortest accepted capability secret
MinSecretLen == 16

\* setKernelCapSecret: [err, secret] with secret the stored token afterwards
setKernelCapSecret(secret, kernel_cap) ==
    IF kernel_cap.k # "str" \/ Len(Trim(kernel_cap.v)) < MinSecretLen
    THEN [err |-> "E_AGENT_GUARD_INIT", secret |-> secret]
    ELSE [err |-> "ok", secret |-> Trim(kernel_cap.v)]

\* a capability check that compares before it looks whether a token is installed
requireKernelCap_NoInit(secret, ctx) ==
    IF Field(ctx, "kernel_cap").k # "str" \/ Field(ctx, "kernel_cap").v = "" THEN "E_AGENT_FORBIDDEN"
    ELSE IF Field(ctx, "kernel_cap").v # secret THEN "E_AGENT_FORBIDDEN"
    ELSE "ok"

\* requireKernelCap: "ok" or the error kind thrown; secret "" is the uninitialized guard
requireKernelCap(secret, ctx) ==
    IF secret = "" THEN "E_AGENT_GUARD_INIT"
    ELSE IF Field(ctx, "kernel_cap").k # "str" \/ Field(ctx, "kernel_cap").v = "" THEN "E_AGENT_FORBIDDEN"
    ELSE IF Field(ctx, "kernel_cap").v # secret THEN "E_AGENT_FORBIDDEN"
    ELSE "ok"

\* the rank table of requireActorRole; a role outside it has no rank
KnownRoles == {"customer", "admin", "owner", "system"}
rank(role) == CASE role = "customer" -> 1 [] role = "admin" -> 2 [] role = "owner" -> 3 [] role = "system" -> 4

\* rank[current_role] < rank[role]: a comparison with a missing rank is false
RankBelow(current_role, role) ==
    current_role \in KnownRoles /\ role \in KnownRoles /\ rank(current_role) < rank(role)

requireActorRole(ctx, role) ==
    LET actor == Field(ctx, "actor")
        current_role == IF is_plain_object(actor) /\ Field(actor, "role").k = "str"
                        THEN Field(actor, "role").v ELSE ""
    IN IF current_role = "" THEN "E_AGENT_FORBIDDEN"
       ELSE IF RankBelow(current_role, role) THEN "E_AGENT_FORBIDDEN"
       ELSE "ok"

\* a combined check that surfaces the failure of the capability check
requireKernelCapOrActorRole_CapError(secret, ctx, role) ==
    IF requireKernelCap(secret, ctx) = "ok" \/ requireActorRole(ctx, role) = "ok" THEN "ok"
    ELSE requireKernelCap(secret, ctx)

requireKernelCapOrActorRole(secret, ctx, role) ==
    IF requireKernelCap(secret, ctx) = "ok" THEN "ok" ELSE requireActorRole(ctx, role)

-----------------------------------------------------------------------------
(* types/envelopes and AgentRuntime.authorize_transport_cmd *)

RECURSIVE has_function(_)
has_function(value) ==
    \/ value.k = "fn"
    \/ (value.k = "arr" /\ \E i \in 1..Len(value.v) : has_function(value.v[i]))
    \/ (value.k = "obj" /\ \E key \in Keys(value) : has_function(value.v[key]))

NonEmptyString(value) == value.k = "str" /\ Trim(value.v) # ""

\* assert_xcmd_shape: "ok" or the error kind
assert_xcmd_shape(xcmd) ==
    IF ~is_plain_object(xcmd) THEN "E_AGENT_BAD_XCMD"
    ELSE IF ~NonEmptyString(Field(xcmd, "_module")) \/ ~NonEmptyString(Field(xcmd, "_op"))
         THEN "E_AGENT_BAD_ENVELOPE"
    ELSE IF Field(xcmd, "_params") # Undef /\ ~is_plain_object(Field(xcmd, "_params")) THEN "E_AGENT_BAD_XCMD"
    ELSE IF has_function(xcmd) THEN "E_AGENT_BAD_XCMD"
    ELSE "ok"

\* trim_non_empty: the trimmed string, Undef otherwise
trim_non_empty(value) == IF NonEmptyString(value) THEN Str(Trim(value.v)) ELSE Undef

\* a ?? b
Coalesce(a, b) == IF a # Undef /\ a # Null THEN a ELSE b

\* an injection that lays the server context over the client's carriers
inject_server_ctx_KeepClient(xcmd, server_ctx) ==
    LET params == IF is_plain_object(Field(xcmd, "_params")) THEN Field(xcmd, "_params") ELSE EmptyObj
        client_root == IF is_plain_object(Field(xcmd, "_ctx")) THEN Field(xcmd, "_ctx") ELSE EmptyObj
        client_params == IF is_plain_object(Field(params, "_ctx")) THEN Field(params, "_ctx") ELSE EmptyObj
        with_ctx == Put(Put(params, "_ctx", Spread(client_params, server_ctx)), "_wid", server_ctx.v["_wid"])
    IN Put(Put(xcmd, "_ctx", Spread(client_root, server_ctx)), "_params", with_ctx)

\* inject_server_ctx: the command after the server context replaced both carriers
inject_server_ctx(xcmd, server_ctx) ==
    LET params == IF is_plain_object(Field(xcmd, "_params")) THEN Field(xcmd, "_params") ELSE EmptyObj
        next_ctx == Obj([x \in {n \in {"_wid", "_sid", "kernel_cap", "actor"} :
                                   n \in Keys(server_ctx)
                                   /\ (n \in {"_wid", "actor"} \/ server_ctx.v[n].v # "")}
                            |-> server_ctx.v[x]])
        with_ctx == Put(Put(params, "_ctx", next_ctx), "_wid", server_ctx.v["_wid"])
        with_sid == IF "_sid" \in Keys(next_ctx) THEN Put(with_ctx, "_sid", server_ctx.v["_sid"]) ELSE with_ctx
    IN Put(Put(xcmd, "_ctx", next_ctx), "_params", with_sid)

\* UsersModule.resolve_session_actor over the sessions of the model:
\* the session tokens that belong to an owner or admin user
SessionRole(token) ==
    CASE token = "sid_admin" -> "admin"
      [] token = "sid_owner" -> "owner"
      [] OTHER -> ""

\* sid.startsWith("sid_") for the tokens of the model
StartsWithSid(token) == token \in {"sid_admin", "sid_owner", "sid_stale"}

\* a check that lets every module through
assert_module_command_allowed_Open(owners, enabled_ids, module_name) == "ok"

\* SkillManagerModule.assert_module_command_allowed over the ownership map
\* and the enabled ids: "ok" or the error kind
assert_module_command_allowed(owners, enabled_ids, module_name) ==
    IF module_name \notin DOMAIN owners THEN "ok"
    ELSE IF \E i \in 1..Len(enabled_ids) : enabled_ids[i] = owners[module_name] THEN "ok"
    ELSE "E_SKILLS_MODULE_DISABLED"

\* AgentRuntime.authorize_transport_cmd: [err, cmd] with cmd the command as
\* the injection left it, which the dispatcher and the guards see when err is "ok"
authorize_transport_cmd(cmd, wh_ctx, owners, enabled_ids) ==
    IF assert_xcmd_shape(cmd) # "ok" THEN [err |-> assert_xcmd_shape(cmd), cmd |-> cmd]
    ELSE
    LET transport_client == wh_ctx.client
        params == Field(cmd, "_params")
        sid == Coalesce(trim_non_empty(wh_ctx.sid),
                        trim_non_empty(IF is_plain_object(params) THEN Field(params, "_sid") ELSE Undef))
        wid == Coalesce(trim_non_empty(wh_ctx.wid), Str("wid_generated"))
        base_ctx == IF sid # Undef THEN Obj(("_wid" :> wid) @@ ("_sid" :> sid)) ELSE Obj("_wid" :> wid)
        should_resolve_actor == sid # Undef /\ (transport_client = "rest" \/ StartsWithSid(sid.v))
    IN IF should_resolve_actor /\ SessionRole(sid.v) = ""
       THEN [err |-> "E_AGENT_FORBIDDEN", cmd |-> cmd]
       ELSE LET actor == Obj(("user_id" :> Str("u_" \o sid.v)) @@ ("role" :> Str(SessionRole(sid.v)))
                               @@ ("source" :> Str("session")))
                server_ctx == IF should_resolve_actor THEN Put(base_ctx, "actor", actor) ELSE base_ctx
                injected == inject_server_ctx(cmd, server_ctx)
            IN [err |-> assert_module_command_allowed(owners, enabled_ids, Field(injected, "_module").v),
                cmd |-> injected]

-----------------------------------------------------------------------------
(* SkillManagerModule: state after construction *)

\* the process capability token (kcap_<random hex>)
KERNEL_CAP == "kcap_0123456789abcdef"

\* DEFAULT_SKILL_CONFIG
DEFAULT_SKILL_CONFIG == [allow |-> <<>>, enabled |-> <<>>, node_modules |-> TRUE, local_paths |-> <<>>]

\* the modules the runtime loads itself before any skill
CoreModules == {"settings", "skills"}

\* the fields of a constructed SkillManagerModule, configuration aside
ManagerFields_NoConfig ==
    /\ enabled = <<>>
    /\ activating = {}
    /\ loaded = <<>>
    /\ skill_to_modules = <<>>
    /\ module_to_skill = <<>>
    /\ runtime_by_skill = <<>>
    /\ xmodules = CoreModules
    /\ contexts = <<>>
    /\ dispatched = {}
    /\ tasks = <<>>

ManagerConstructed ==
    /\ config = DEFAULT_SKILL_CONFIG
    /\ ManagerFields_NoConfig
    /\ file = [exists |-> FALSE]

-----------------------------------------------------------------------------
(* Package resolution: paths are sequences of segments below the file     *)
(* system root; a path string is [abs, segs], its text split at "/".      *)

RepoRoot == <<"repo">>
PackageRoot == <<"repo", "packages", "agent-core">>

Rel(segs) == [abs |-> FALSE, segs |-> segs]
Abs(segs) == [abs |-> TRUE, segs |-> segs]

RECURSIVE NormalizeSegs(_, _)
NormalizeSegs(base, segs) ==
    IF segs = <<>> THEN base
    ELSE LET seg == Head(segs)
         IN IF seg = "" \/ seg = "." THEN NormalizeSegs(base, Tail(segs))
            ELSE IF seg = ".."
                 THEN NormalizeSegs(IF base = <<>> THEN base ELSE SubSeq(base, 1, Len(base) - 1), Tail(segs))
                 ELSE NormalizeSegs(Append(base, seg), Tail(segs))

\* path.resolve(base, raw)
PathResolve(base, raw) == IF raw.abs THEN NormalizeSegs(<<>>, raw.segs) ELSE NormalizeSegs(base, raw.segs)

is_path_within(target_path, root_path) ==
    \/ target_path = root_path
    \/ (Len(target_path) > Len(root_path) /\ SubSeq(target_path, 1, Len(root_path)) = root_path)

\* a skill id read as a path string
IdPath(id) ==
    CASE id = "../../etc" -> Rel(<<"..", "..", "etc">>)
      [] OTHER -> Rel(<<id>>)

\* the package.json documents on disk, by directory: name and entry (exports/module/main)
PackageDirs ==
    {<<"repo", "skills", "s1">>, <<"repo", "skills", "s2">>, <<"repo", "skills", "s3">>,
     <<"repo", "skills", "s4">>, <<"repo", "vendor", "s1">>, <<"repo", "vendor", "s1", "s1">>, <<"etc">>}

PackageJson(dir) ==
    CASE dir = <<"repo", "skills", "s1">> -> [name |-> "s1", entry |-> Rel(<<".", "dist", "index.js">>)]
      [] dir = <<"repo", "skills", "s2">> -> [name |-> "s2", entry |-> Rel(<<"index.js">>)]
      [] dir = <<"repo", "skills", "s3">> -> [name |-> "s3", entry |-> Rel(<<"index.js">>)]
      [] dir = <<"repo", "skills", "s4">> -> [name |-> "s4", entry |-> Rel(<<"index.js">>)]
      [] dir = <<"repo", "vendor", "s1">> -> [name |-> "s1", entry |-> Rel(<<"..", "..", "..", "etc", "index.js">>)]
      [] dir = <<"repo", "vendor", "s1", "s1">> -> [name |-> "s1", entry |-> Rel(<<"index.js">>)]
      [] dir = <<"etc">> -> [name |-> "../../etc", entry |-> Rel(<<"index.js">>)]

\* the regular files on disk besides package.json documents
RegularFiles ==
    {<<"repo", "skills", "s1", "dist", "index.js">>, <<"repo", "skills", "s2", "index.js">>,
     <<"repo", "skills", "s3", "index.js">>, <<"repo", "skills", "s4", "index.js">>,
     <<"repo", "vendor", "s1", "s1", "index.js">>, <<"etc", "index.js">>}

\* the packages require.resolve finds from the package root
NodeInstalled == {"s2"}

\* resolve_node_module: [ok, specifier, source]
resolve_node_module(id) ==
    IF id \in NodeInstalled
    THEN [ok |-> TRUE, specifier |-> PackageRoot \o <<"node_modules", id, "index.js">>, source |-> <<"node_modules">>]
    ELSE [ok |-> FALSE, specifier |-> <<>>, source |-> <<>>]

\* normalize_local_path: [ok, path]; not ok is BadConfig
normalize_local_path(raw_local_path) ==
    LET absolute == PathResolve(RepoRoot, raw_local_path)
    IN [ok |-> is_path_within(absolute, RepoRoot), path |-> absolute]

\* resolve_package_entry: [ok, path]; not ok is BadConfig
resolve_package_entry(package_root, pkg) ==
    LET entry_file == PathResolve(package_root, pkg.entry)
    IN [ok |-> is_path_within(entry_file, package_root), path |-> entry_file]

\* the candidate loop of resolve_local_path:
\* [kind, err, entry, source, reads] with kind "found", "none" or "throw"
RECURSIVE ResolveCandidates(_, _, _)
ResolveCandidates(id, candidates, reads) ==
    IF candidates = <<>>
    THEN [kind |-> "none", err |-> "", entry |-> <<>>, source |-> <<>>, reads |-> reads]
    ELSE LET candidate == Head(candidates)
             reads_pkg == reads \cup {Append(candidate, "package.json")}
         IN IF candidate \notin PackageDirs \/ PackageJson(candidate).name # id
            THEN ResolveCandidates(id, Tail(candidates), reads_pkg)
            ELSE LET entry == resolve_package_entry(candidate, PackageJson(candidate))
                 IN IF ~entry.ok
                    THEN [kind |-> "throw", err |-> "E_SKILLS_BAD_CONFIG", entry |-> <<>>,
                          source |-> <<>>, reads |-> reads_pkg]
                    ELSE IF entry.path \notin RegularFiles
                    THEN [kind |-> "throw", err |-> "ENOENT", entry |-> <<>>,
                          source |-> <<>>, reads |-> reads_pkg \cup {entry.path}]
                    ELSE [kind |-> "found", err |-> "", entry |-> entry.path,
                          source |-> candidate, reads |-> reads_pkg \cup {entry.path}]

resolve_local_path(id, raw_local_path) ==
    LET local_root == normalize_local_path(raw_local_path)
    IN IF ~local_root.ok
       THEN [kind |-> "throw", err |-> "E_SKILLS_BAD_CONFIG", entry |-> <<>>, source |-> <<>>, reads |-> {}]
       ELSE ResolveCandidates(id, <<local_root.path, PathResolve(local_root.path, IdPath(id))>>, {})

\* the local-path loop of resolve_skill_entry
RECURSIVE ResolveLocalPaths(_, _, _, _)
ResolveLocalPaths(id, local_paths, errors, reads) ==
    IF local_paths = <<>>
    THEN [ok |-> FALSE, err |-> "E_SKILLS_RESOLVE_FAILED", specifier |-> <<>>, source |-> <<>>,
          errors |-> errors, reads |-> reads]
    ELSE LET resolved == resolve_local_path(id, Head(local_paths))
         IN IF resolved.kind = "found"
            THEN [ok |-> TRUE, err |-> "", specifier |-> resolved.entry, source |-> <<"local">> \o resolved.source,
                  errors |-> errors, reads |-> reads \cup resolved.reads]
            ELSE ResolveLocalPaths(id, Tail(local_paths),
                                   IF resolved.kind = "throw" THEN Append(errors, resolved.err) ELSE errors,
                                   reads \cup resolved.reads)

\* resolve_skill_entry: [ok, err, specifier, source, errors, reads]; source is
\* <<"node_modules">> or <<"local">> followed by the candidate directory;
\* reads are the paths handed to readFile and stat by the local strategy
resolve_skill_entry(cfg, id) ==
    IF cfg.node_modules /\ resolve_node_module(id).ok
    THEN [ok |-> TRUE, err |-> "", specifier |-> resolve_node_module(id).specifier, source |-> resolve_node_module(id).source,
          errors |-> <<>>, reads |-> {}]
    ELSE ResolveLocalPaths(id, cfg.local_paths, IF cfg.node_modules THEN <<"MODULE_NOT_FOUND">> ELSE <<>>, {})

-----------------------------------------------------------------------------
(* Specification of package resolution: a configuration is read, then      *)
(* skill ids are resolved against it.                                      *)

\* longest list of local roots in a configuration
MaxLocalPaths == 2

\* local_paths entries: inside the repository, escaping it, absolute outside it
RawLocalPaths == {Rel(<<"skills">>), Rel(<<"skills", "s1">>), Rel(<<"vendor">>), Rel(<<"vendor", "s1">>),
                  Rel(<<"..", "outside">>), Abs(<<"etc">>)}

ResolveIds == {"s1", "s2", "s3", "s4", "s5", "../../etc"}

RECURSIVE ListsUpTo(_, _)
ListsUpTo(S, n) ==
    IF n = 0 THEN {<<>>}
    ELSE LET shorter == ListsUpTo(S, n - 1)
         IN shorter \cup {Append(q, x) : q \in {r \in shorter : Len(r) = n - 1}, x \in S}

ResolveInit ==
    /\ ManagerFields_NoConfig
    /\ \E node_modules \in BOOLEAN, local_paths \in ListsUpTo(RawLocalPaths, MaxLocalPaths) :
          config = [allow |-> <<>>, enabled |-> <<>>, node_modules |-> node_modules, local_paths |-> local_paths]
    /\ file = [exists |-> FALSE]
    /\ kernel_cap_secret = KERNEL_CAP
    /\ xsettings = EmptyObj
    /\ settings_meta_by_skill = <<>>
    /\ last = [op |-> "init"]

ResolveSkillEntry(id) ==
    /\ last' = [op |-> "resolve", id |-> id, out |-> resolve_skill_entry(config, id)]
    /\ UNCHANGED <<kernel_cap_secret, manager_vars, xsettings, settings_meta_by_skill>>

ResolveNext == \E id \in ResolveIds : ResolveSkillEntry(id)

SpecResolve == ResolveInit /\ [][ResolveNext]_vars

HasParentSegment(id) == \E i \in 1..Len(IdPath(id).segs) : IdPath(id).segs[i] = ".."

\* some configured local root lies inside the repository
HasLocalRoot == \E i \in 1..Len(config.local_paths) : normalize_local_path(config.local_paths[i]).ok

\* C9: resolving an id with parent-directory segments through a configured
\* local root fails with BadConfig, and no package descriptor or entry file
\* is read outside the repository root.
C9_PathContainment ==
    (last.op = "resolve" /\ HasParentSegment(last.id) /\ HasLocalRoot) =>
        /\ ~last.out.ok
        /\ last.out.err = "E_SKILLS_BAD_CONFIG"
        /\ \A p \in last.out.reads : is_path_within(p, RepoRoot)

\* dir holds a package descriptor naming id whose entry file lies inside dir
\* and is an existing regular file
ValidCandidate(id, dir) ==
    /\ dir \in PackageDirs
    /\ PackageJson(dir).name = id
    /\ is_path_within(PathResolve(dir, PackageJson(dir).entry), dir)
    /\ PathResolve(dir, PackageJson(dir).entry) \in RegularFiles

\* the candidate directories of the configured local roots, in configured
\* order: each root inside the repository, then <root>/<id>
RECURSIVE CandidateOrder(_, _)
CandidateOrder(local_paths, id) ==
    IF local_paths = <<>> THEN <<>>
    ELSE LET local_root == PathResolve(RepoRoot, Head(local_paths))
         IN (IF is_path_within(local_root, RepoRoot)
             THEN <<local_root, PathResolve(local_root, IdPath(id))>> ELSE <<>>)
            \o CandidateOrder(Tail(local_paths), id)

\* the local roots whose attempt ends in an error when no candidate is valid:
\* the root escapes the repository, or a candidate's descriptor names id
FailingRoots(local_paths, id) ==
    {i \in 1..Len(local_paths) :
        LET tried == CandidateOrder(<<local_paths[i]>>, id)
        IN tried = <<>> \/ \E j \in 1..Len(tried) : tried[j] \in PackageDirs /\ PackageJson(tried[j]).name = id}

\* the package-manager strategy is configured and resolves the id
ByPackageManager(id) == config.node_modules /\ id \in NodeInstalled

\* C25: resolve returns an entry from a local root only for a candidate whose
\* descriptor names the requested id and whose entry file lies inside the
\* candidate directory and is an existing regular file; the first such
\* candidate in configured order wins; when no strategy yields one the result
\* is ResolveFailed carrying one error per failed attempt.
C25_FirstValidCandidateWins ==
    (last.op = "resolve" /\ ~ByPackageManager(last.id)) =>
        LET valid == SelectSeq(CandidateOrder(config.local_paths, last.id),
                               LAMBDA dir : ValidCandidate(last.id, dir))
        IN IF valid # <<>>
           THEN /\ last.out.ok
                /\ last.out.source = <<"local">> \o Head(valid)
                /\ last.out.specifier = PathResolve(Head(valid), PackageJson(Head(valid)).entry)
           ELSE /\ ~last.out.ok
                /\ last.out.err = "E_SKILLS_RESOLVE_FAILED"
                /\ Len(last.out.errors) = (IF config.node_modules THEN 1 ELSE 0)
                                           + Cardinality(FailingRoots(config.local_paths, last.id))

\* the part of C25 the code keeps: an entry returned from a local root belongs
\* to a valid candidate of a configured root, and a failure is ResolveFailed
C25_OnlyValidCandidates ==
    last.op = "resolve" =>
        /\ (last.out.ok /\ Head(last.out.source) = "local") =>
              /\ ValidCandidate(last.id, Tail(last.out.source))
              /\ last.out.specifier = PathResolve(Tail(last.out.source), PackageJson(Tail(last.out.source)).entry)
              /\ \E i \in 1..Len(config.local_paths) :
                    \E j \in 1..Len(CandidateOrder(<<config.local_paths[i]>>, last.id)) :
                        CandidateOrder(<<config.local_paths[i]>>, last.id)[j] = Tail(last.out.source)
        /\ ~last.out.ok => last.out.err = "E_SKILLS_RESOLVE_FAILED"

-----------------------------------------------------------------------------
(* Bounded inputs of the settings specification *)

\* longest list of sensitive paths a skill declares
MaxSensitive == 2

SettingsSkill == "s1"

\* the declared sensitive dotted paths the model draws from
\* (<<"", "">> is the dotted string ".": it names no key)
SensitivePaths == {<<"token">>, <<"a">>, <<"a", "b">>, <<"", "">>}

RECURSIVE SeqsUpTo(_, _)
SeqsUpTo(S, n) ==
    IF n = 0 THEN {<<>>}
    ELSE LET shorter == SeqsUpTo(S, n - 1)
         IN shorter \cup {Append(q, x) : q \in {r \in shorter : Len(r) = n - 1}, x \in S}

\* normalize_string_array output: no duplicates
SensitiveLists ==
    {q \in SeqsUpTo(SensitivePaths, MaxSensitive) :
        \A i, j \in 1..Len(q) : i # j => q[i] # q[j]}

\* the values a document of the model holds under each key; "absent" is drawn too
StoredVals(key) ==
    IF key = "token"
    THEN {Str("abc123"), Str(""), Null, Arr(<<>>), Num(0)}
    ELSE {Str("abc123"), Obj("b" :> Str("s3cr3t")), EmptyObj}

PatchVals(key) ==
    IF key = "token"
    THEN {Str(MASK_SENTINEL), Str("new")}
    ELSE {Str(MASK_SENTINEL), Obj("b" :> Str(MASK_SENTINEL)), Obj("b" :> Str("new"))}

DocKeys == {"token", "a"}

DocsOver(vals(_)) ==
    UNION {{Obj(f) : f \in {g \in [ks -> UNION {vals(key) : key \in DocKeys}] :
                                \A key \in ks : g[key] \in vals(key)}} :
           ks \in SUBSET DocKeys}

StoredDocs == DocsOver(StoredVals)
Patches == DocsOver(PatchVals)

DefaultsDocs == {EmptyObj, Obj("a" :> Obj("c" :> Str("d")))}

\* the bucket stored for a skill, Undef when there is none
Bucket(skill_id) == Field(xsettings, skill_id)

-----------------------------------------------------------------------------
(* Specification of the settings store: masked reads and patch writes on   *)
(* one skill bucket whose settings metadata is registered.                 *)

SettingsInit ==
    /\ ManagerConstructed
    /\ kernel_cap_secret = KERNEL_CAP
    /\ \E doc \in StoredDocs : xsettings = Obj(SettingsSkill :> doc)
    /\ \E sens \in SensitiveLists, dflt \in DefaultsDocs :
          settings_meta_by_skill =
              (SettingsSkill :> [present |-> TRUE, defaults |-> dflt, sensitive |-> sens])
    /\ last = [op |-> "init"]

SettingsGetSkill(include_masked) ==
    /\ last' = [op |-> "get_skill",
                include_masked |-> include_masked,
                result |-> get_skill_impl(xsettings, settings_meta_by_skill, SettingsSkill, include_masked)]
    /\ UNCHANGED <<kernel_cap_secret, manager_vars, xsettings, settings_meta_by_skill>>

SettingsSetSkill(patch) ==
    /\ xsettings' = set_skill_impl(xsettings, settings_meta_by_skill, SettingsSkill, patch)
    /\ last' = [op |-> "set_skill", patch |-> patch, before |-> Bucket(SettingsSkill)]
    /\ UNCHANGED <<kernel_cap_secret, manager_vars, settings_meta_by_skill>>

SettingsNext ==
    \/ \E include_masked \in BOOLEAN : SettingsGetSkill(include_masked)
    \/ \E patch \in Patches : SettingsSetSkill(patch)

SpecSettings == SettingsInit /\ [][SettingsNext]_vars

-----------------------------------------------------------------------------
(* Properties of the settings store *)

SettingsMeta == resolve_skill_meta(settings_meta_by_skill, SettingsSkill)

DeclaredSensitive == {SettingsMeta.sensitive[i] : i \in 1..Len(SettingsMeta.sensitive)}

StoredBucket == IF is_plain_object(Bucket(SettingsSkill)) THEN Bucket(SettingsSkill) ELSE EmptyObj

\* a masked read shows the sentinel at path p and reports p
MaskedAt(result, p) ==
    /\ getByPath(result.settings, p) = Str(MASK_SENTINEL)
    /\ p \in result.masked

\* the write kept the value stored at path p
KeptAt(p) == getByPath(StoredBucket, p) = getByPath(last.before, p)

MaskRoundTripAt(p) ==
    /\ (last.op = "get_skill" /\ last.include_masked /\ ~IsEmptyValue(getByPath(StoredBucket, p)))
          => MaskedAt(last.result, p)
    /\ (last.op = "set_skill" /\ ~IsEmptyValue(getByPath(last.before, p))
            /\ getByPath(last.patch, p) = Str(MASK_SENTINEL))
          => KeptAt(p)

\* C5 as stated: for every declared sensitive path holding a non-empty stored
\* value, a masked read returns the sentinel there and reports the path, and a
\* write whose patch still holds the sentinel there keeps the stored value.
C5_AnyDeclaredPath == \A p \in DeclaredSensitive : MaskRoundTripAt(p)

IsProperPrefix(q, p) ==
    LET qs == split_path(q)
        ps == split_path(p)
    IN Len(qs) < Len(ps) /\ SubSeq(ps, 1, Len(qs)) = qs

\* p names at least one key and no declared sensitive path is a proper prefix of p
Outermost(p) ==
    /\ split_path(p) # <<>>
    /\ \A q \in DeclaredSensitive : ~IsProperPrefix(q, p)

\* C5 (amended): mask round-trip for every declared sensitive path that names
\* at least one key and lies under no other declared sensitive path: a masked
\* read of a non-empty stored value returns the sentinel at the path and
\* reports it, and a write whose patch holds the sentinel at the path leaves
\* the stored value at the path unchanged.
C5_MaskRoundTrip == \A p \in DeclaredSensitive : Outermost(p) => MaskRoundTripAt(p)

\* a write that carried the sentinel at a declared path over a non-empty stored
\* value, changed another field, and kept the value
C5_Witness ==
    /\ last.op = "set_skill"
    /\ \E p \in DeclaredSensitive :
          /\ Outermost(p)
          /\ ~IsEmptyValue(getByPath(last.before, p))
          /\ getByPath(last.patch, p) = Str(MASK_SENTINEL)
          /\ KeptAt(p)
    /\ StoredBucket # last.before

\* a masked read that hides a value stored under a declared path lying below
\* another declared path: the sentinel sits at the ancestor
C5_Nested ==
    ~(/\ last.op = "get_skill"
      /\ last.include_masked
      /\ \E p \in DeclaredSensitive :
            /\ ~Outermost(p)
            /\ split_path(p) # <<>>
            /\ ~IsEmptyValue(getByPath(StoredBucket, p))
            /\ ~MaskedAt(last.result, p))

-----------------------------------------------------------------------------
(* SkillManagerModule: helpers over its collections *)

InSeq(q, x) == \E i \in 1..Len(q) : q[i] = x
SetOf(q) == {q[i] : i \in 1..Len(q)}

\* Set.add and Set.delete on a Set kept in insertion order
SetAdd(q, x) == IF InSeq(q, x) THEN q ELSE Append(q, x)
SetDelete(q, x) == SelectSeq(q, LAMBDA y : y # x)

\* Map.set and Map.delete
MapPut(m, key, value) == [x \in DOMAIN m \cup {key} |-> IF x = key THEN value ELSE m[x]]
MapDel(m, key) == [x \in DOMAIN m \ {key} |-> m[x]]

\* the names of the model in localeCompare order
NameOrder == <<"m1", "m2", "m3", "s1", "s2", "s3", "s4", "s5", "settings", "skills">>

\* Array.from(S).sort((a, b) => a.localeCompare(b))
SortNames(S) == SelectSeq(NameOrder, LAMBDA n : n \in S)

RECURSIVE NormalizeLoop(_, _)
NormalizeLoop(items, out) ==
    IF items = <<>> THEN out
    ELSE LET trimmed == Trim(Head(items))
         IN IF trimmed = "" \/ InSeq(out, trimmed)
            THEN NormalizeLoop(Tail(items), out)
            ELSE NormalizeLoop(Tail(items), Append(out, trimmed))

\* normalize_string_array over a list of strings
normalize_string_array(value) == NormalizeLoop(value, <<>>)

StrArr(q) == Arr([i \in 1..Len(q) |-> Str(q[i])])

op_key(module_name, op) == module_name \o "." \o op

-----------------------------------------------------------------------------
(* The skill packages on disk: what import() of an entry file yields *)

SkillIds == {"s1", "s2", "s3", "s4", "s5"}

\* s1: a skill object with capabilities, settings and both hooks
\* s2: a legacy package exporting registerSkill
\* s3: a package exporting neither; s4: a package whose evaluation throws
ModuleExports(specifier) ==
    CASE specifier = <<"repo", "skills", "s1", "dist", "index.js">> ->
            [throws |-> FALSE, shape |-> "xbot", id |-> "s1", version |-> "1.0.0",
             kernel_ops |-> <<"settings.get", " settings.get ", " ">>,
             settings |-> [present |-> TRUE, defaults |-> Obj("mode" :> Str("polling")),
                           sensitive |-> <<<<"bot_token">>>>],
             has_on_disable |-> TRUE]
      [] specifier = <<"repo", "skills", "s3", "index.js">> ->
            [throws |-> FALSE, shape |-> "none", id |-> "", version |-> "", kernel_ops |-> <<>>,
             settings |-> NoMeta, has_on_disable |-> FALSE]
      [] specifier = <<"repo", "skills", "s4", "index.js">> ->
            [throws |-> TRUE, shape |-> "none", id |-> "", version |-> "", kernel_ops |-> <<>>,
             settings |-> NoMeta, has_on_disable |-> FALSE]
      [] OTHER ->
            [throws |-> FALSE, shape |-> "legacy", id |-> "", version |-> "", kernel_ops |-> <<>>,
             settings |-> NoMeta, has_on_disable |-> FALSE]

\* normalize_capabilities of a skill object
normalize_capabilities(kernel_ops) ==
    Obj(("kernel_ops" :> StrArr(normalize_string_array(kernel_ops))) @@ ("channels" :> Arr(<<>>)))

\* resolve_skill_descriptor with validate_xbot_skill and resolve_legacy_register_fn
resolve_skill_descriptor(id, module_exports) ==
    IF module_exports.shape = "xbot"
    THEN IF module_exports.id # id
         THEN [ok |-> FALSE, kind |-> "", version |-> "", capabilities |-> Undef,
               settings_meta |-> NoMeta, has_on_disable |-> FALSE]
         ELSE [ok |-> TRUE, kind |-> "xbot", version |-> module_exports.version,
               capabilities |-> normalize_capabilities(module_exports.kernel_ops),
               settings_meta |-> module_exports.settings,
               has_on_disable |-> module_exports.has_on_disable]
    ELSE IF module_exports.shape = "legacy"
    THEN [ok |-> TRUE, kind |-> "legacy", version |-> "0.0.0-legacy", capabilities |-> EmptyObj,
          settings_meta |-> [present |-> TRUE, defaults |-> EmptyObj, sensitive |-> <<>>],
          has_on_disable |-> FALSE]
    ELSE [ok |-> FALSE, kind |-> "", version |-> "", capabilities |-> Undef,
          settings_meta |-> NoMeta, has_on_disable |-> FALSE]

\* the steps a hook takes through its sandbox context
Reg(module_name) == [call |-> "registerModule", module |-> module_name, op |-> "", params |-> EmptyObj]
Exec(module_name, op, params) == [call |-> "execute", module |-> module_name, op |-> op, params |-> params]
Emit(event_name, payload) == [call |-> "emit", module |-> event_name, op |-> "", params |-> payload]
ThrowStep(msg) == [call |-> "throw", module |-> msg, op |-> "", params |-> EmptyObj]

\* how a hook behaves in one invocation
HookVariants == {"ok", "throw"}

\* params through which a skill tries to pass a context of its own
ForgedParams == Obj("_ctx" :> Obj(("kernel_cap" :> Str("kcap_guess")) @@ ("actor" :> Obj("role" :> Str("owner")))))

\* onEnable / registerSkill of the packages
on_enable_script(id, variant) ==
    CASE id = "s1" /\ variant = "ok" ->
            <<Reg("m1"), Exec(" settings ", "get", ForgedParams), Exec("skills", "list", EmptyObj)>>
      [] id = "s1" /\ variant = "throw" -> <<Reg("m1"), ThrowStep("boom")>>
      [] id = "s2" /\ variant = "ok" -> <<Reg("m2"), Exec("settings", "get", EmptyObj)>>
      [] id = "s2" /\ variant = "throw" -> <<ThrowStep("boom")>>
      [] OTHER -> <<>>

\* onDisable of s1: calls through the context it kept; the hook goes on after
\* a call fails and throws at its end when one did
on_disable_script(id) ==
    IF id = "s1" THEN <<Exec("settings", "get", EmptyObj), Emit("skill.bye", EmptyObj)>> ELSE <<>>

\* the enable and disable ops of the modules skills register, run by
\* _x.execute: m1 has both, its disable op throwing after its calls; m2 has a
\* disable op only; m3 has neither ("cant find op")
ModuleHasOp(module_name, op) ==
    \/ module_name = "m1"
    \/ (module_name = "m2" /\ op = "disable")

ModuleOpThrows(module_name, op) == module_name = "m1" /\ op = "disable"

\* what the op does through the sandbox context of the skill that owns the module
module_op_script(module_name, op) ==
    IF op = "disable"
    THEN <<Emit("module.down", EmptyObj), Exec("settings", "get", EmptyObj)>>
    ELSE <<Exec("settings", "get", EmptyObj)>>

\* how one sandbox call of a hook or module op ended
CallMark(who, call, result) == who \o ":" \o call \o ":" \o result

SandboxCalls == {"execute", "emit", "registerModule"}
CallErrors == {"E_SKILLS_DISABLED", "E_SKILLS_BAD_PARAMS", "E_SKILLS_MODULE_CONFLICT", "Error"}

\* some sandbox call of the hook failed, so the hook threw
CallFailed(trace, who) == \E call \in SandboxCalls, result \in CallErrors : CallMark(who, call, result) \in trace

-----------------------------------------------------------------------------
(* SkillManagerModule: operations over a state record st; each yields      *)
(* [st, err, msg, path, step].                                             *)

\* the element of a one-element set: The({e : x \in {v}}) is e with x naming
\* the value of v, computed once
The(S) == CHOOSE x \in S : TRUE

Cur ==
    [config |-> config, file |-> file, enabled |-> enabled, activating |-> activating,
     loaded |-> loaded, skill_to_modules |-> skill_to_modules, module_to_skill |-> module_to_skill,
     runtime_by_skill |-> runtime_by_skill, settings_meta_by_skill |-> settings_meta_by_skill,
     xsettings |-> xsettings, xmodules |-> xmodules, contexts |-> contexts,
     tasks |-> tasks, dispatched |-> {}, trace |-> {}]

Res(st, err, msg, path, step) == [st |-> st, err |-> err, msg |-> msg, path |-> path, step |-> step]
Done(st, path) == Res(st, "", "", path, "")

Trace(st, step) == [st EXCEPT !.trace = @ \cup {step}]

ModulesOf(st, skill_id) ==
    IF skill_id \in DOMAIN st.skill_to_modules THEN st.skill_to_modules[skill_id] ELSE {}

\* a gate that admits every id
assert_allowlisted_Open(cfg, id) == TRUE

\* assert_allowlisted: TRUE when the id passes
assert_allowlisted(cfg, id) == InSeq(cfg.allow, id)

\* a context that treats every op as declared
is_kernel_allowed_Any(capabilities, op_name) == TRUE

\* kernel_allow.has(op_name), kernel_allow built from capabilities.kernel_ops
is_kernel_allowed(capabilities, op_name) ==
    /\ "kernel_ops" \in Keys(capabilities)
    /\ \E i \in 1..Len(capabilities.v["kernel_ops"].v) : capabilities.v["kernel_ops"].v[i] = Str(op_name)

\* a gate that lets every skill with a loaded record through
assert_skill_enabled_for_callback_Loaded(st, skill_id) == skill_id \in DOMAIN st.loaded

assert_skill_enabled_for_callback(st, skill_id) == InSeq(st.enabled, skill_id) \/ skill_id \in st.activating

\* registerModule with no ownership check
registerModule_Unchecked(st, skill_id, module_name) ==
    Done([st EXCEPT !.xmodules = @ \cup {module_name},
                    !.skill_to_modules = MapPut(@, skill_id, ModulesOf(st, skill_id) \cup {module_name}),
                    !.module_to_skill = MapPut(@, module_name, skill_id)], "")

\* _x.loadModule: the module enters the registry; the call is recorded in the trace
loadModule(st, module_name) ==
    [Trace(st, "loadModule:" \o module_name) EXCEPT !.xmodules = @ \cup {module_name}]

\* registerModule without the test for a loaded module that no skill owns
registerModule_Annex(st, skill_id, module_name) ==
    IF module_name \in DOMAIN st.module_to_skill /\ st.module_to_skill[module_name] # skill_id
    THEN Res(st, "E_SKILLS_MODULE_CONFLICT", "module already registered", "", "")
    ELSE Done([(IF module_name \in st.xmodules THEN st ELSE loadModule(st, module_name)) EXCEPT
                  !.skill_to_modules = MapPut(@, skill_id, ModulesOf(st, skill_id) \cup {module_name}),
                  !.module_to_skill = MapPut(@, module_name, skill_id)], "")

\* create_skill_context.registerModule
registerModule(st, skill_id, module_name) ==
    LET mapped == module_name \in DOMAIN st.module_to_skill
        already_loaded == module_name \in st.xmodules
    IN IF mapped /\ st.module_to_skill[module_name] # skill_id
       THEN Res(st, "E_SKILLS_MODULE_CONFLICT", "module already registered", "", "")
       ELSE IF already_loaded /\ ~mapped
       THEN Res(st, "E_SKILLS_MODULE_CONFLICT", "module already exists", "", "")
       ELSE Done([(IF already_loaded THEN st ELSE loadModule(st, module_name)) EXCEPT
                     !.skill_to_modules = MapPut(@, skill_id, ModulesOf(st, skill_id) \cup {module_name}),
                     !.module_to_skill = MapPut(@, module_name, skill_id)], "")

\* an execute that spreads params over the context it built: { _ctx, ..._params }
execute_SkillCtxWins(st, skill_id, capabilities, module_name, op, params, meta) ==
    IF ~assert_skill_enabled_for_callback(st, skill_id)
    THEN Res(st, "E_SKILLS_DISABLED", "Skill is disabled", "", "")
    ELSE IF Trim(module_name) = "" \/ Trim(op) = ""
    THEN Res(st, "E_SKILLS_BAD_PARAMS", "expected non-empty string", "", "")
    ELSE IF params # Undef /\ (~is_plain_object(params) \/ has_function(params))
    THEN Res(st, "E_SKILLS_BAD_PARAMS", "params must be a JSON-safe object", "", "")
    ELSE IF meta # Undef /\ has_function(meta)
    THEN Res(st, "E_SKILLS_BAD_PARAMS", "meta must be JSON-safe", "", "")
    ELSE LET _params == IF params = Undef THEN EmptyObj ELSE params
             actor == Obj(("role" :> Str("system")) @@ ("source" :> Str("skill:" \o skill_id)))
             with_cap == IF is_kernel_allowed(capabilities, op_key(Trim(module_name), Trim(op)))
                         THEN Obj(("actor" :> actor) @@ ("kernel_cap" :> Str(KERNEL_CAP)))
                         ELSE Obj("actor" :> actor)
             _ctx == IF meta # Undef THEN Put(with_cap, "meta", meta) ELSE with_cap
             cmd == Obj(("_module" :> Str(Trim(module_name))) @@ ("_op" :> Str(Trim(op)))
                        @@ ("_params" :> Spread(Obj("_ctx" :> _ctx), _params)))
         IN Done([st EXCEPT !.dispatched = @ \cup {[skill |-> skill_id, cmd |-> cmd]}], "")

\* create_skill_context.execute: the command handed to the dispatcher is recorded
execute(st, skill_id, capabilities, module_name, op, params, meta) ==
    IF ~assert_skill_enabled_for_callback(st, skill_id)
    THEN Res(st, "E_SKILLS_DISABLED", "Skill is disabled", "", "")
    ELSE IF Trim(module_name) = "" \/ Trim(op) = ""
    THEN Res(st, "E_SKILLS_BAD_PARAMS", "expected non-empty string", "", "")
    ELSE IF params # Undef /\ ~is_plain_object(params)
    THEN Res(st, "E_SKILLS_BAD_PARAMS", "params must be an object", "", "")
    ELSE IF params # Undef /\ has_function(params)
    THEN Res(st, "E_SKILLS_BAD_PARAMS", "params must be JSON-safe", "", "")
    ELSE IF meta # Undef /\ has_function(meta)
    THEN Res(st, "E_SKILLS_BAD_PARAMS", "meta must be JSON-safe", "", "")
    ELSE LET _params == IF params = Undef THEN EmptyObj ELSE params
             op_name == op_key(Trim(module_name), Trim(op))
             actor == Obj(("role" :> Str("system")) @@ ("source" :> Str("skill:" \o skill_id)))
             with_cap == IF is_kernel_allowed(capabilities, op_name)
                         THEN Obj(("actor" :> actor) @@ ("kernel_cap" :> Str(KERNEL_CAP)))
                         ELSE Obj("actor" :> actor)
             _ctx == IF meta # Undef THEN Put(with_cap, "meta", meta) ELSE with_cap
             cmd == Obj(("_module" :> Str(Trim(module_name))) @@ ("_op" :> Str(Trim(op)))
                        @@ ("_params" :> Put(_params, "_ctx", _ctx)))
         IN Done([st EXCEPT !.dispatched = @ \cup {[skill |-> skill_id, cmd |-> cmd]}], "")

\* create_skill_context.emit: a published event is recorded in the trace
emit(st, skill_id, event_name, payload) ==
    IF ~assert_skill_enabled_for_callback(st, skill_id)
    THEN Res(st, "E_SKILLS_DISABLED", "Skill is disabled", "", "")
    ELSE IF Trim(event_name) = ""
    THEN Res(st, "E_SKILLS_BAD_PARAMS", "expected non-empty string", "", "")
    ELSE IF has_function(payload)
    THEN Res(st, "E_SKILLS_BAD_PARAMS", "emit payload must be JSON-safe", "", "")
    ELSE Done(Trace(st, "fire:" \o Trim(event_name)), "")

\* a hook running its steps through the context; the first failure propagates
RECURSIVE RunScript(_, _, _, _)
RunScript(st, skill_id, capabilities, script) ==
    IF script = <<>> THEN Done(st, "")
    ELSE The({IF out.err # "" THEN out ELSE RunScript(out.st, skill_id, capabilities, Tail(script)) :
              out \in {LET step == Head(script)
                       IN CASE step.call = "registerModule" -> registerModule(st, skill_id, step.module)
                            [] step.call = "execute" ->
                                  execute(st, skill_id, capabilities, step.module, step.op, step.params, Undef)
                            [] step.call = "emit" -> emit(st, skill_id, step.module, step.params)
                            [] OTHER -> Res(st, "Error", step.module, "", "")}})

\* code of the skill that makes its sandbox calls one after another and goes
\* on after a failure; the trace keeps how each call ended
RECURSIVE HookCalls(_, _, _, _, _)
HookCalls(st, skill_id, capabilities, script, who) ==
    IF script = <<>> THEN st
    ELSE The({HookCalls(Trace(out.st, CallMark(who, Head(script).call, IF out.err = "" THEN "ok" ELSE out.err)),
                        skill_id, capabilities, Tail(script), who) :
              out \in {RunScript(st, skill_id, capabilities, <<Head(script)>>)}})

\* a loop that stops at the first module whose op fails
RECURSIVE ModuleHooksLoop_Abort(_, _, _, _)
ModuleHooksLoop_Abort(st, skill_id, modules, op) ==
    IF modules = <<>> THEN st
    ELSE IF ModuleOpThrows(Head(modules), op)
         THEN Trace(Trace(st, "module_op:" \o op_key(Head(modules), op)),
                    "module_op_failed:" \o op_key(Head(modules), op))
         ELSE ModuleHooksLoop_Abort(Trace(st, "module_op:" \o op_key(Head(modules), op)),
                                    skill_id, Tail(modules), op)

\* the loop of call_module_hooks over the modules of the skill
RECURSIVE ModuleHooksLoop(_, _, _, _)
ModuleHooksLoop(st, skill_id, modules, op) ==
    IF modules = <<>> THEN st
    ELSE LET module_name == Head(modules)
             attempted == Trace(st, "module_op:" \o op_key(module_name, op))
         IN IF ~ModuleHasOp(module_name, op)
            THEN ModuleHooksLoop(attempted, skill_id, Tail(modules), op)
            ELSE The({ModuleHooksLoop(IF ModuleOpThrows(module_name, op)
                                      THEN Trace(ran, "module_op_failed:" \o op_key(module_name, op))
                                      ELSE ran,
                                      skill_id, Tail(modules), op) :
                      ran \in {HookCalls(attempted, skill_id,
                                         IF skill_id \in DOMAIN st.contexts THEN st.contexts[skill_id] ELSE EmptyObj,
                                         module_op_script(module_name, op), op_key(module_name, op))}})

\* call_module_hooks: the enable/disable op of every module of the skill is
\* executed with the kernel context; a missing op and a failing op are both
\* swallowed
call_module_hooks(st, skill_id, op) == ModuleHooksLoop(st, skill_id, SortNames(ModulesOf(st, skill_id)), op)

\* Object.prototype.hasOwnProperty.call(skills_bucket, skill_id)
has_stored(skills_bucket, skill_id) == skill_id \in Keys(skills_bucket)

\* bootstrap_skill_settings_defaults; env.settings_fails: the settings store rejects the write
bootstrap_skill_settings_defaults(st, skill_id, meta, env) ==
    LET st1 == Trace(st, "bootstrap")
        defaults == IF meta.present /\ is_plain_object(meta.defaults) THEN meta.defaults ELSE EmptyObj
    IN IF Keys(defaults) = {} THEN Done(st1, "")
       ELSE IF has_stored(st1.xsettings, skill_id) THEN Done(st1, "")
       ELSE IF env.settings_fails THEN Res(st1, "E_SETTINGS_WRITE", "ENOSPC", "", "bootstrap")
       ELSE Done([st1 EXCEPT !.xsettings =
                     set_skill_impl(st1.xsettings, st1.settings_meta_by_skill, skill_id, defaults)], "")

\* runtime_record?.x ?? existing?.x
RuntimeOrExisting(st, id, field, none) ==
    IF id \in DOMAIN st.runtime_by_skill THEN st.runtime_by_skill[id][field]
    ELSE IF id \in DOMAIN st.loaded THEN st.loaded[id][field]
    ELSE none

\* existing?.source ?? runtime_record?.source
ExistingOrRuntimeSource(st, id) ==
    IF id \in DOMAIN st.loaded /\ st.loaded[id].source # <<>> THEN st.loaded[id].source
    ELSE IF id \in DOMAIN st.runtime_by_skill THEN st.runtime_by_skill[id].source
    ELSE <<>>

\* the status of the record of a skill, "unloaded" when _loaded has none
StatusOf(st, id) == IF id \in DOMAIN st.loaded THEN st.loaded[id].status ELSE "unloaded"

\* a write of the record of a skill by enable or disable, kept in the trace
StatusMark(op, id, from, to) == "status:" \o op \o ":" \o id \o ":" \o from \o ">" \o to

Recorded(st, op, id, to) == Trace(st, StatusMark(op, id, StatusOf(st, id), to))

\* a set_error_state that records nothing
set_error_state_Silent(st, id, error_message, source) == st

\* set_error_state; source <<>> is "not given"
set_error_state(st, id, error_message, source) ==
    [Recorded(st, "enable", id, "error") EXCEPT !.loaded = MapPut(@, id,
        [version |-> RuntimeOrExisting(st, id, "version", ""),
         enabled |-> FALSE,
         status |-> "error",
         error |-> error_message,
         source |-> IF source # <<>> THEN source ELSE ExistingOrRuntimeSource(st, id),
         capabilities |-> RuntimeOrExisting(st, id, "capabilities", Undef),
         modules_registered |-> SortNames(ModulesOf(st, id))])]

\* a fast path that leaves the modules of the skill alone
enable_fast_NoModuleOps(st, id, env) ==
    The({IF boot.err # "" THEN Res(boot.st, boot.err, boot.msg, "fast", "bootstrap")
         ELSE Done([boot.st EXCEPT !.enabled = SetAdd(@, id),
                                   !.loaded = MapPut(@, id,
                                       [version |-> boot.st.runtime_by_skill[id].version,
                                        enabled |-> TRUE,
                                        status |-> "loaded",
                                        error |-> "",
                                        source |-> ExistingOrRuntimeSource(boot.st, id),
                                        capabilities |-> boot.st.runtime_by_skill[id].capabilities,
                                        modules_registered |-> SortNames(ModulesOf(boot.st, id))])], "fast") :
         boot \in {bootstrap_skill_settings_defaults(
                       st, id,
                       IF id \in DOMAIN st.settings_meta_by_skill THEN st.settings_meta_by_skill[id] ELSE NoMeta,
                       env)}})

\* the fast path of enable_skill: the package was loaded before
enable_fast(st, id, env) ==
    The({IF boot.err # "" THEN Res(boot.st, boot.err, boot.msg, "fast", "bootstrap")
         ELSE LET st1 == call_module_hooks(boot.st, id, "enable")
                  runtime_record == st1.runtime_by_skill[id]
              IN Done([Recorded(st1, "enable", id, "loaded") EXCEPT !.enabled = SetAdd(@, id),
                                  !.loaded = MapPut(@, id,
                                      [version |-> runtime_record.version,
                                       enabled |-> TRUE,
                                       status |-> "loaded",
                                       error |-> "",
                                       source |-> ExistingOrRuntimeSource(st1, id),
                                       capabilities |-> runtime_record.capabilities,
                                       modules_registered |-> SortNames(ModulesOf(st1, id))])], "fast") :
         boot \in {bootstrap_skill_settings_defaults(
                       st, id,
                       IF id \in DOMAIN st.settings_meta_by_skill THEN st.settings_meta_by_skill[id] ELSE NoMeta,
                       env)}})

\* the try block of enable_skill: metadata cached, defaults bootstrapped, hook
\* run, records written; on a failure the rollback of the catch block
activate(st, id, env, resolved, descriptor) ==
    The({IF hook.err # ""
         THEN The({Res([failed EXCEPT !.settings_meta_by_skill = MapDel(@, id),
                                      !.activating = @ \ {id}],
                       hook.err, hook.msg, "full", hook.step) :
                   failed \in {set_error_state([hook.st EXCEPT !.enabled = SetDelete(@, id)],
                                               id, hook.msg, resolved.source)}})
         ELSE LET st4 == [Recorded(hook.st, "enable", id, "loaded") EXCEPT !.enabled = SetAdd(@, id)]
              IN Done([st4 EXCEPT
                          !.runtime_by_skill = MapPut(@, id,
                              [version |-> descriptor.version, kind |-> descriptor.kind,
                               capabilities |-> descriptor.capabilities, source |-> resolved.source,
                               has_on_disable |-> descriptor.has_on_disable]),
                          !.loaded = MapPut(@, id,
                              [version |-> descriptor.version,
                               enabled |-> TRUE,
                               status |-> "loaded",
                               error |-> "",
                               source |-> resolved.source,
                               capabilities |-> descriptor.capabilities,
                               modules_registered |-> SortNames(ModulesOf(st4, id))]),
                          !.activating = @ \ {id}], "full") :
         hook \in {The({IF boot.err # "" THEN boot
                        ELSE The({Res(ran.st, ran.err, ran.msg, "", IF ran.err # "" THEN "on_enable" ELSE "") :
                                  ran \in {RunScript([Trace(boot.st, "on_enable") EXCEPT
                                                         !.contexts = MapPut(@, id, descriptor.capabilities)],
                                                     id, descriptor.capabilities,
                                                     on_enable_script(id, env.hook))}}) :
                        boot \in {bootstrap_skill_settings_defaults(
                                      [st EXCEPT !.activating = @ \cup {id},
                                                 !.settings_meta_by_skill = MapPut(@, id, descriptor.settings_meta)],
                                      id, descriptor.settings_meta, env)}})}})

\* the full path of enable_skill: resolution, import and descriptor validation
\* come before the try block
enable_full(st, id, env) ==
    The({IF ~resolved.ok
         THEN Res(Trace(st, "resolve"), "E_SKILLS_RESOLVE_FAILED", "Unable to resolve skill", "full", "resolve")
         ELSE LET st2 == Trace(Trace(st, "resolve"), "import")
              IN The({IF loaded_module.throws
                      THEN Res(st2, "SyntaxError", "Unexpected token", "full", "import")
                      ELSE The({IF ~descriptor.ok
                                THEN Res(st2, "E_SKILLS_BAD_EXPORT", "Skill must export skill or registerSkill",
                                         "full", "descriptor")
                                ELSE activate(st2, id, env, resolved, descriptor) :
                                descriptor \in {resolve_skill_descriptor(id, loaded_module)}}) :
                      loaded_module \in {ModuleExports(resolved.specifier)}}) :
         resolved \in {resolve_skill_entry(st.config, id)}})

\* an enable that loads the package again when the skill is already enabled
enable_skill_Again(st, id, env) ==
    IF ~InSeq(st.config.allow, id)
    THEN Res(st, "E_SKILLS_NOT_ALLOWLISTED", "Skill id is not in allowlist", "", "")
    ELSE IF id \in DOMAIN st.loaded /\ st.loaded[id].status = "disabled" /\ id \in DOMAIN st.runtime_by_skill
    THEN enable_fast(st, id, env)
    ELSE enable_full(st, id, env)

enable_skill(st, id, env) ==
    IF ~assert_allowlisted(st.config, id)
    THEN Res(st, "E_SKILLS_NOT_ALLOWLISTED", "Skill id is not in allowlist", "", "")
    ELSE IF id \in DOMAIN st.loaded /\ st.loaded[id].status = "loaded" /\ InSeq(st.enabled, id)
    THEN Done(st, "noop")
    ELSE IF id \in DOMAIN st.loaded /\ st.loaded[id].status = "disabled" /\ id \in DOMAIN st.runtime_by_skill
    THEN enable_fast(st, id, env)
    ELSE enable_full(st, id, env)

\* a disable that runs the hooks before it takes the id out of the enabled set
disable_skill_HooksFirst(st, id, env) ==
    IF ~InSeq(st.config.allow, id)
    THEN Res(st, "E_SKILLS_NOT_ALLOWLISTED", "Skill id is not in allowlist", "", "")
    ELSE
    The({LET st3 == [ModuleHooksLoop(st2, id, SortNames(ModulesOf(st2, id)), "disable")
                        EXCEPT !.enabled = SetDelete(@, id)]
         IN Done([st3 EXCEPT !.loaded = MapPut(@, id,
                     [version |-> RuntimeOrExisting(st3, id, "version", ""),
                      enabled |-> FALSE,
                      status |-> "disabled",
                      error |-> "",
                      source |-> ExistingOrRuntimeSource(st3, id),
                      capabilities |-> RuntimeOrExisting(st3, id, "capabilities", Undef),
                      modules_registered |-> SortNames(ModulesOf(st3, id))])], "") :
         st2 \in {IF id \in DOMAIN st.runtime_by_skill /\ st.runtime_by_skill[id].has_on_disable
                  THEN HookCalls(Trace(st, "on_disable"), id, st.runtime_by_skill[id].capabilities,
                                 on_disable_script(id), "on_disable")
                  ELSE st}})

disable_skill(st, id, env) ==
    IF ~assert_allowlisted(st.config, id)
    THEN Res(st, "E_SKILLS_NOT_ALLOWLISTED", "Skill id is not in allowlist", "", "")
    ELSE
    The({LET st3 == Recorded(call_module_hooks(st2, id, "disable"), "disable", id, "disabled")
         IN Done([st3 EXCEPT !.loaded = MapPut(@, id,
                     [version |-> RuntimeOrExisting(st3, id, "version", ""),
                      enabled |-> FALSE,
                      status |-> "disabled",
                      error |-> "",
                      source |-> ExistingOrRuntimeSource(st3, id),
                      capabilities |-> RuntimeOrExisting(st3, id, "capabilities", Undef),
                      modules_registered |-> SortNames(ModulesOf(st3, id))])], "") :
         st2 \in {LET st1 == [st EXCEPT !.enabled = SetDelete(@, id)]
                  IN IF id \in DOMAIN st.runtime_by_skill /\ st.runtime_by_skill[id].has_on_disable
                     THEN The({IF CallFailed(ran.trace, "on_disable") THEN Trace(ran, "on_disable_failed") ELSE ran :
                               ran \in {HookCalls(Trace(st1, "on_disable"), id,
                                                  st.runtime_by_skill[id].capabilities,
                                                  on_disable_script(id), "on_disable")}})
                     ELSE st1}})

sorted_enabled(st) == SortNames(SetOf(st.enabled))

\* persist_enabled_to_agent_config; env.persist_fails: reading or writing the document throws
persist_enabled_to_agent_config(st, env) ==
    LET enabled_list == SelectSeq(sorted_enabled(st), LAMBDA id : InSeq(st.config.allow, id))
        st1 == [Trace(st, "persist") EXCEPT !.config.enabled = enabled_list]
    IN IF env.persist_fails THEN Res(st1, "EIO", "write failed", "", "persist")
       ELSE Done([st1 EXCEPT !.file =
                    [exists |-> TRUE, allow |-> st1.config.allow, enabled |-> enabled_list,
                     node_modules |-> st1.config.node_modules, local_paths |-> st1.config.local_paths,
                     other |-> IF st1.file.exists THEN st1.file.other ELSE "none"]], "")

\* read_agent_config of a document that parses
read_agent_config(doc) ==
    IF ~doc.exists THEN DEFAULT_SKILL_CONFIG
    ELSE LET allow == normalize_string_array(doc.allow)
         IN [allow |-> allow,
             enabled |-> SelectSeq(normalize_string_array(doc.enabled), LAMBDA id : InSeq(allow, id)),
             node_modules |-> doc.node_modules,
             local_paths |-> doc.local_paths]

\* the command { _module: "skills", _op, _params: { id, _ctx } } as a caller sends it
SkillsCmd(op, id, caller_ctx) ==
    Obj(("_module" :> Str("skills")) @@ ("_op" :> Str(op))
        @@ ("_params" :> Obj(("id" :> Str(id)) @@ ("_ctx" :> caller_ctx))))

Impl(res, persist_threw) ==
    [st |-> res.st, err |-> res.err, msg |-> res.msg, path |-> res.path, step |-> res.step,
     persist_threw |-> persist_threw]

enable_impl(st, secret, xcmd, env) ==
    IF requireKernelCapOrActorRole(secret, readCommandCtx(xcmd), "admin") # "ok"
    THEN Impl(Res(st, "E_AGENT_FORBIDDEN", "forbidden", "", ""), FALSE)
    ELSE IF ~NonEmptyString(Field(Field(xcmd, "_params"), "id"))
    THEN Impl(Res(st, "E_SKILLS_BAD_PARAMS", "Invalid id", "", ""), FALSE)
    ELSE
    LET id == Trim(Field(Field(xcmd, "_params"), "id").v)
        was_enabled == InSeq(st.enabled, id)
    IN The({IF on.err # "" THEN Impl(on, FALSE)
            ELSE The({IF saved.err = "" THEN Impl(Res(saved.st, "", "", on.path, ""), FALSE)
                      ELSE LET undone == IF ~was_enabled THEN disable_skill(saved.st, id, env).st ELSE saved.st
                           IN Impl(Res(undone, "E_SKILLS_PERSIST_FAILED", "Failed to save enabled skills",
                                       on.path, "persist"), TRUE) :
                      saved \in {persist_enabled_to_agent_config(on.st, env)}}) :
            on \in {enable_skill(st, id, env)}})

disable_impl(st, secret, xcmd, env) ==
    IF requireKernelCapOrActorRole(secret, readCommandCtx(xcmd), "admin") # "ok"
    THEN Impl(Res(st, "E_AGENT_FORBIDDEN", "forbidden", "", ""), FALSE)
    ELSE IF ~NonEmptyString(Field(Field(xcmd, "_params"), "id"))
    THEN Impl(Res(st, "E_SKILLS_BAD_PARAMS", "Invalid id", "", ""), FALSE)
    ELSE
    LET id == Trim(Field(Field(xcmd, "_params"), "id").v)
        was_enabled == InSeq(st.enabled, id)
    IN The({IF off.err # "" THEN Impl(off, FALSE)
            ELSE The({IF saved.err = "" THEN Impl(Res(saved.st, "", "", "", ""), FALSE)
                      ELSE LET undone == IF was_enabled THEN enable_skill(saved.st, id, env).st ELSE saved.st
                           IN Impl(Res(undone, "E_SKILLS_PERSIST_FAILED", "Failed to save enabled skills",
                                       "", "persist"), TRUE) :
                      saved \in {persist_enabled_to_agent_config(off.st, env)}}) :
            off \in {disable_skill(st, id, env)}})

\* the first loop of reload_enabled_impl: disable what is no longer targeted
RECURSIVE DisableUntargeted(_, _, _, _)
DisableUntargeted(st, ids, target_enabled, env) ==
    IF ids = <<>> THEN Done(st, "")
    ELSE IF InSeq(target_enabled, Head(ids)) THEN DisableUntargeted(st, Tail(ids), target_enabled, env)
    ELSE The({IF off.err # "" THEN off ELSE DisableUntargeted(off.st, Tail(ids), target_enabled, env) :
              off \in {disable_skill(st, Head(ids), env)}})

\* a second loop that gives up at the first failing target
RECURSIVE EnableTargets_Abort(_, _, _)
EnableTargets_Abort(st, ids, env) ==
    IF ids = <<>> THEN st
    ELSE The({IF on.err # ""
              THEN Trace(set_error_state(on.st, Head(ids), on.msg, <<>>), "failed:" \o Head(ids))
              ELSE EnableTargets_Abort(Trace(on.st, "enabled:" \o Head(ids)), Tail(ids), env) :
              on \in {enable_skill(st, Head(ids), env)}})

\* the second loop of reload_enabled_impl: enable each target, recording failures;
\* the trace keeps how the enable of each target ended
RECURSIVE EnableTargets(_, _, _)
EnableTargets(st, ids, env) ==
    IF ids = <<>> THEN st
    ELSE The({EnableTargets(next, Tail(ids), env) :
              next \in {The({IF on.err # ""
                             THEN Trace(set_error_state(on.st, Head(ids), on.msg, <<>>), "failed:" \o Head(ids))
                             ELSE Trace(on.st, "enabled:" \o Head(ids)) :
                             on \in {enable_skill(st, Head(ids), env)}})}})

\* reload_enabled_impl once the guard has passed: the configuration is re-read
\* and the two loops run
reload_targets(st, env) ==
    The({The({IF off.err # "" THEN off
              ELSE Done(EnableTargets(off.st, st1.config.enabled, env), "") :
              off \in {DisableUntargeted(st1, st1.enabled, st1.config.enabled, env)}}) :
         st1 \in {[st EXCEPT !.config = read_agent_config(st.file)]}})

\* a reload that accepts an administrator as enable and disable do
reload_enabled_impl_AdminRole(st, secret, xcmd, env) ==
    IF requireKernelCapOrActorRole(secret, readCommandCtx(xcmd), "admin") # "ok"
    THEN Res(st, "E_AGENT_FORBIDDEN", "forbidden", "", "")
    ELSE reload_targets(st, env)

reload_enabled_impl(st, secret, xcmd, env) ==
    IF requireKernelCap(secret, readCommandCtx(xcmd)) # "ok"
    THEN Res(st, requireKernelCap(secret, readCommandCtx(xcmd)), "forbidden", "", "")
    ELSE reload_targets(st, env)

\* forward_ctx: the caller's context as the manager hands it to the settings module
forward_ctx(xcmd) ==
    LET ctx == readCommandCtx(xcmd)
    IN Obj([x \in {n \in {"_wid", "_sid", "kernel_cap", "actor"} : n \in Keys(ctx)} |-> ctx.v[x]])

\* the result of get_settings_impl and update_settings_impl: [st, err, msg, settings]
SettingsRes(st, err, msg, settings) == [st |-> st, err |-> err, msg |-> msg, settings |-> settings]

\* the settings.get_skill call both commands end with: include_masked is false
read_skill_settings(st, secret, xcmd, id) ==
    IF requireKernelCapOrActorRole(secret, forward_ctx(xcmd), "admin") # "ok"
    THEN SettingsRes(st, "E_AGENT_FORBIDDEN", "forbidden", EmptyObj)
    ELSE LET result == get_skill_impl(st.xsettings, st.settings_meta_by_skill, id, FALSE)
         IN SettingsRes(st, "", "", IF is_plain_object(result.settings) THEN result.settings ELSE EmptyObj)

get_settings_impl(st, secret, xcmd) ==
    IF requireKernelCapOrActorRole(secret, readCommandCtx(xcmd), "admin") # "ok"
    THEN SettingsRes(st, "E_AGENT_FORBIDDEN", "forbidden", EmptyObj)
    ELSE IF ~NonEmptyString(Field(Field(xcmd, "_params"), "id"))
    THEN SettingsRes(st, "E_SKILLS_BAD_PARAMS", "Invalid id", EmptyObj)
    ELSE IF ~assert_allowlisted(st.config, Trim(Field(Field(xcmd, "_params"), "id").v))
    THEN SettingsRes(st, "E_SKILLS_NOT_ALLOWLISTED", "Skill id is not in allowlist", EmptyObj)
    ELSE read_skill_settings(st, secret, xcmd, Trim(Field(Field(xcmd, "_params"), "id").v))

\* ensure_json_object(params.settings ?? {}): Undef when the value is rejected
SettingsParam(xcmd) ==
    LET settings == Coalesce(Field(Field(xcmd, "_params"), "settings"), EmptyObj)
    IN IF is_plain_object(settings) /\ ~has_function(settings) THEN settings ELSE Undef

\* update_settings_impl; env.settings_fails: the settings store rejects the write
update_settings_impl(st, secret, xcmd, env) ==
    IF requireKernelCapOrActorRole(secret, readCommandCtx(xcmd), "admin") # "ok"
    THEN SettingsRes(st, "E_AGENT_FORBIDDEN", "forbidden", EmptyObj)
    ELSE IF ~NonEmptyString(Field(Field(xcmd, "_params"), "id"))
    THEN SettingsRes(st, "E_SKILLS_BAD_PARAMS", "Invalid id", EmptyObj)
    ELSE IF ~assert_allowlisted(st.config, Trim(Field(Field(xcmd, "_params"), "id").v))
    THEN SettingsRes(st, "E_SKILLS_NOT_ALLOWLISTED", "Skill id is not in allowlist", EmptyObj)
    ELSE IF SettingsParam(xcmd) = Undef
    THEN SettingsRes(st, "E_SKILLS_BAD_PARAMS", "Expected settings to be an object", EmptyObj)
    ELSE IF env.settings_fails
    THEN SettingsRes(st, "E_SETTINGS_WRITE", "ENOSPC", EmptyObj)
    ELSE The({read_skill_settings(written, secret, xcmd, Trim(Field(Field(xcmd, "_params"), "id").v)) :
              written \in {[st EXCEPT !.xsettings =
                               set_skill_impl(st.xsettings, st.settings_meta_by_skill,
                                              Trim(Field(Field(xcmd, "_params"), "id").v), SettingsParam(xcmd))]}})

\* clone_loaded_record: a falsy field is left out
clone_loaded_record(id, record) ==
    LET always == ("id" :> Str(id)) @@ ("enabled" :> record.enabled) @@ ("status" :> Str(record.status))
                  @@ ("modules_registered" :> StrArr(record.modules_registered))
        version == IF record.version # "" THEN "version" :> Str(record.version) ELSE <<>>
        error == IF record.error # "" THEN "error" :> Str(record.error) ELSE <<>>
        source == IF record.source # <<>> THEN "source" :> record.source ELSE <<>>
        capabilities == IF record.capabilities # Undef THEN "capabilities" :> record.capabilities ELSE <<>>
    IN always @@ version @@ error @@ source @@ capabilities

\* to_loaded_list: one entry per id of the allow-list and of the loaded map, sorted by id
to_loaded_list(st) ==
    LET ids == SortNames(SetOf(st.config.allow) \cup DOMAIN st.loaded)
    IN [i \in 1..Len(ids) |->
            IF ids[i] \in DOMAIN st.loaded THEN clone_loaded_record(ids[i], st.loaded[ids[i]])
            ELSE ("id" :> Str(ids[i])) @@ ("enabled" :> FALSE) @@ ("status" :> Str("disabled"))]

list_impl(st) == [allow |-> st.config.allow, enabled |-> sorted_enabled(st), loaded |-> to_loaded_list(st)]

-----------------------------------------------------------------------------
(* Specification of the skill lifecycle: commands, sandbox calls of        *)
(* loaded skills, settings edits and edits of the configuration document.  *)

LocalRoots == <<Rel(<<"skills">>)>>

\* allow as an operator typed it: a blank and a repeated entry
RawAllow == <<"s1", " ", "s2", "s1", "s3">>

Doc(allow, enabled_list, other) ==
    [exists |-> TRUE, allow |-> allow, enabled |-> enabled_list, node_modules |-> TRUE,
     local_paths |-> LocalRoots, other |-> other]

NoFile ==
    [exists |-> FALSE, allow |-> <<>>, enabled |-> <<>>, node_modules |-> TRUE,
     local_paths |-> <<>>, other |-> "none"]

\* the configuration documents the process may start with
FileDocs == {NoFile, Doc(RawAllow, <<"s2", "s1", "s3">>, "ui")}

\* the document an operator puts in its place: the allow-list shrinks to s1
EditedDocs == {Doc(<<"s1">>, <<"s1", "s2">>, "ui")}

KernelCtx == Obj(("kernel_cap" :> Str(KERNEL_CAP))
                 @@ ("actor" :> Obj(("role" :> Str("system")) @@ ("source" :> Str("skill-manager")))))
AdminCtx == Obj("actor" :> Obj(("role" :> Str("admin")) @@ ("user_id" :> Str("u_admin"))))
CustomerCtx == Obj("actor" :> Obj(("role" :> Str("customer")) @@ ("user_id" :> Str("u_guest"))))

Env(persist_fails, settings_fails, hook) ==
    [persist_fails |-> persist_fails, settings_fails |-> settings_fails, hook |-> hook]

Quiet == Env(FALSE, FALSE, "ok")

\* a command request: who sends it and how the environment behaves while it runs
Req(caller_ctx, env) == [caller |-> caller_ctx, env |-> env]

EnableRequests ==
    {Req(AdminCtx, Env(p, FALSE, h)) : p \in BOOLEAN, h \in HookVariants} \cup {Req(CustomerCtx, Quiet)}

DisableRequests ==
    {Req(AdminCtx, Env(p, FALSE, "ok")) : p \in BOOLEAN} \cup {Req(CustomerCtx, Quiet)}

ReloadRequests ==
    {Req(KernelCtx, Env(FALSE, FALSE, h)) : h \in HookVariants} \cup {Req(AdminCtx, Quiet)}

\* the ids commands name: s5 is on no allow-list
CommandIds == {"s1", "s2", "s3", "s5", " "}

\* what a loaded skill calls through the context it keeps
ExecTargets == {<<"settings", "get">>, <<"skills", "list">>}
RegisterTargets == {"m1", "settings"}

\* the events a loaded skill emits: a payload that is JSON-safe and one that is not
EmitTargets == {<<"skill.ready", EmptyObj>>, <<"skill.ready", Obj("cb" :> [k |-> "fn", v |-> "fn"])>>}

\* the patches an administrator writes to the bucket of s1
AdminPatches == {Obj("mode" :> Str("webhook")), EmptyObj}

Init ==
    /\ config = DEFAULT_SKILL_CONFIG
    /\ ManagerFields_NoConfig
    /\ file \in FileDocs
    /\ kernel_cap_secret = KERNEL_CAP
    /\ xsettings = EmptyObj
    /\ settings_meta_by_skill = <<>>
    /\ last = [op |-> "init"]

Commit(st) ==
    /\ config' = st.config
    /\ file' = st.file
    /\ enabled' = st.enabled
    /\ activating' = st.activating
    /\ loaded' = st.loaded
    /\ skill_to_modules' = st.skill_to_modules
    /\ module_to_skill' = st.module_to_skill
    /\ runtime_by_skill' = st.runtime_by_skill
    /\ settings_meta_by_skill' = st.settings_meta_by_skill
    /\ xsettings' = st.xsettings
    /\ xmodules' = st.xmodules
    /\ contexts' = st.contexts
    /\ dispatched' = st.dispatched
    /\ tasks' = st.tasks
    /\ UNCHANGED kernel_cap_secret

CommandResult(op, id, caller_ctx, out) ==
    [op |-> op, id |-> Trim(id), caller |-> caller_ctx, err |-> out.err, msg |-> out.msg, path |-> out.path, step |-> out.step,
     persist_threw |-> out.persist_threw, trace |-> out.st.trace]

Enable(id, caller_ctx, env) ==
    \E out \in {The({enable_impl(cur, kernel_cap_secret, SkillsCmd("enable", id, caller_ctx), env) :
                     cur \in {Cur}})} :
        /\ Commit(out.st)
        /\ last' = CommandResult("enable", id, caller_ctx, out)

Disable(id, caller_ctx, env) ==
    \E out \in {The({disable_impl(cur, kernel_cap_secret, SkillsCmd("disable", id, caller_ctx), env) :
                     cur \in {Cur}})} :
        /\ Commit(out.st)
        /\ last' = CommandResult("disable", id, caller_ctx, out)

ReloadEnabled(caller_ctx, env) ==
    \E out \in {The({reload_enabled_impl(cur, kernel_cap_secret, SkillsCmd("reload_enabled", "", caller_ctx), env) :
                     cur \in {Cur}})} :
        /\ Commit(out.st)
        /\ last' = [op |-> "reload_enabled", caller |-> caller_ctx, err |-> out.err, msg |-> out.msg,
                    trace |-> out.st.trace]

List(caller_ctx) ==
    \E cur \in {Cur} :
        /\ Commit(cur)
        /\ last' = [op |-> "list", caller |-> caller_ctx, err |-> "", result |-> list_impl(cur)]

SandboxExecute(skill_id, target) ==
    /\ skill_id \in DOMAIN contexts
    /\ \E out \in {The({execute(cur, skill_id, contexts[skill_id], target[1], target[2], EmptyObj, Undef) :
                        cur \in {Cur}})} :
          /\ Commit(out.st)
          /\ last' = [op |-> "execute", id |-> skill_id, module |-> target[1], err |-> out.err]

SandboxEmit(skill_id, event) ==
    /\ skill_id \in DOMAIN contexts
    /\ \E out \in {The({emit(cur, skill_id, event[1], event[2]) : cur \in {Cur}})} :
          /\ Commit(out.st)
          /\ last' = [op |-> "emit", id |-> skill_id, module |-> event[1], err |-> out.err,
                      fired |-> out.st.trace # {}]

SandboxRegisterModule(skill_id, module_name) ==
    /\ skill_id \in DOMAIN contexts
    /\ \E out \in {The({registerModule(cur, skill_id, module_name) : cur \in {Cur}})} :
          /\ Commit(out.st)
          /\ last' = [op |-> "register_module", id |-> skill_id, module |-> module_name, err |-> out.err,
                      loads |-> out.st.trace]

\* settings.reset_skill by an administrator
SettingsResetSkill(skill_id) ==
    /\ xsettings' = IF has_stored(xsettings, skill_id) THEN Remove(xsettings, skill_id) ELSE xsettings
    /\ last' = [op |-> "reset_skill", id |-> skill_id]
    /\ UNCHANGED <<kernel_cap_secret, manager_vars, settings_meta_by_skill>>

\* an operator rewrites the configuration document
EditFile(doc) ==
    /\ file' = doc
    /\ last' = [op |-> "edit_file"]
    /\ UNCHANGED <<kernel_cap_secret, config, enabled, activating, loaded, skill_to_modules, module_to_skill,
                   runtime_by_skill, xmodules, contexts, dispatched, tasks, settings_meta_by_skill, xsettings>>

Next ==
    \/ \E id \in CommandIds, req \in EnableRequests : Enable(id, req.caller, req.env)
    \/ \E id \in CommandIds \ {" "}, req \in DisableRequests : Disable(id, req.caller, req.env)
    \/ \E req \in ReloadRequests : ReloadEnabled(req.caller, req.env)
    \/ \E caller_ctx \in {EmptyObj} : List(caller_ctx)
    \/ \E skill_id \in SkillIds, target \in ExecTargets : SandboxExecute(skill_id, target)
    \/ \E skill_id \in SkillIds, event \in EmitTargets : SandboxEmit(skill_id, event)
    \/ \E skill_id \in SkillIds, module_name \in RegisterTargets : SandboxRegisterModule(skill_id, module_name)
    \/ \E doc \in EditedDocs : EditFile(doc)

Spec == Init /\ [][Next]_vars

-----------------------------------------------------------------------------
(* Specification of the settings defaults of one skill: s1 is enabled and  *)
(* disabled while an administrator edits or resets its bucket and while    *)
(* the document and the settings store may reject writes.                  *)

DefaultsInit ==
    /\ config = DEFAULT_SKILL_CONFIG
    /\ ManagerFields_NoConfig
    /\ file = Doc(<<"s1">>, <<>>, "none")
    /\ kernel_cap_secret = KERNEL_CAP
    /\ xsettings = EmptyObj
    /\ settings_meta_by_skill = <<>>
    /\ last = [op |-> "init"]

DefaultsEnvs == {Env(p, s, h) : p \in BOOLEAN, s \in BOOLEAN, h \in HookVariants}

DefaultsNext ==
    \/ \E env \in DefaultsEnvs : Enable(SettingsSkill, AdminCtx, env)
    \/ \E env \in DefaultsEnvs : Disable(SettingsSkill, AdminCtx, env)
    \/ \E env \in DefaultsEnvs : ReloadEnabled(KernelCtx, env)
    \/ \E patch \in AdminPatches : SettingsSetSkill(patch)
    \/ SettingsResetSkill(SettingsSkill)

SpecDefaults == DefaultsInit /\ [][DefaultsNext]_vars

-----------------------------------------------------------------------------
(* Properties of the skill lifecycle *)

\* the caller of the last command passed the guard and named an id
Admitted(result) == result.err \notin {"E_AGENT_FORBIDDEN", "E_SKILLS_BAD_PARAMS"}

\* C1: when the write of the configuration document throws during enable or
\* disable, the enabled set after the command equals the enabled set before
\* it and the caller sees PersistFailed.
C1_PersistAtomicity ==
    [][(last'.op \in {"enable", "disable"} /\ last'.persist_threw) =>
          /\ SetOf(enabled') = SetOf(enabled)
          /\ last'.err = "E_SKILLS_PERSIST_FAILED"]_vars

\* C2: enable of an id outside the allow-list fails with NotAllowlisted,
\* leaves the enabled set, the loaded map and both ownership maps unchanged,
\* and runs no resolution, loading, bootstrap or hook.
C2_AllowListGate ==
    [][(last'.op = "enable" /\ Admitted(last') /\ ~InSeq(config.allow, last'.id)) =>
          /\ last'.err = "E_SKILLS_NOT_ALLOWLISTED"
          /\ UNCHANGED <<enabled, loaded, skill_to_modules, module_to_skill>>
          /\ last'.trace = {}
          /\ dispatched' = {}]_vars

\* an enable of a loaded, still enabled skill that is no longer allow-listed was refused
C2_Witness ==
    /\ last.op = "enable"
    /\ last.err = "E_SKILLS_NOT_ALLOWLISTED"
    /\ ~InSeq(config.allow, last.id)
    /\ last.id \in DOMAIN loaded
    /\ InSeq(enabled, last.id)

\* the kernel_ops list a package declares, as written in its skill object
DeclaredKernelOps(skill_id) ==
    IF skill_id = "s1" THEN ModuleExports(<<"repo", "skills", "s1", "dist", "index.js">>).kernel_ops ELSE <<>>

ForwardedOp(cmd) == op_key(Field(cmd, "_module").v, Field(cmd, "_op").v)

HasToken(cmd) == Field(readCommandCtx(cmd), "kernel_cap") = Str(KERNEL_CAP)

\* C3: every command a sandbox execute hands to the dispatcher carries the
\* capability token iff "module.op" is in the kernel_ops the skill declared;
\* a legacy skill never gets it; no other capability value is forwarded.
C3_CapabilityGate ==
    \A d \in dispatched :
        /\ HasToken(d.cmd) <=> InSeq(DeclaredKernelOps(d.skill), ForwardedOp(d.cmd))
        /\ "kernel_cap" \in Keys(readCommandCtx(d.cmd)) => HasToken(d.cmd)
        /\ (d.skill \in DOMAIN runtime_by_skill /\ runtime_by_skill[d.skill].kind = "legacy") => ~HasToken(d.cmd)

\* one skill had a declared op forwarded with the token and another op without it,
\* the first through params that carried a context of the skill's own
C3_Witness ==
    /\ \E d \in dispatched : d.skill = "s1" /\ HasToken(d.cmd) /\ ForwardedOp(d.cmd) = "settings.get"
    /\ \E d \in dispatched : d.skill = "s1" /\ ~HasToken(d.cmd) /\ ForwardedOp(d.cmd) = "skills.list"

OwnershipAgree ==
    /\ \A m \in DOMAIN module_to_skill :
          module_to_skill[m] \in DOMAIN skill_to_modules /\ m \in skill_to_modules[module_to_skill[m]]
    /\ \A s \in DOMAIN skill_to_modules : \A m \in skill_to_modules[s] :
          m \in DOMAIN module_to_skill /\ module_to_skill[m] = s

\* C4: the two ownership maps agree in every state (so a module has at most
\* one owner), and a register_module call for a name owned by another skill
\* fails with ModuleConflict and leaves ownership as it was.
C4_OwnershipExclusive ==
    /\ []OwnershipAgree
    /\ [][(/\ last'.op = "register_module"
           /\ last'.module \in DOMAIN module_to_skill
           /\ module_to_skill[last'.module] # last'.id) =>
              /\ last'.err = "E_SKILLS_MODULE_CONFLICT"
              /\ UNCHANGED <<skill_to_modules, module_to_skill>>]_vars

\* a skill asked for a module another skill owns and was refused
C4_Witness ==
    /\ last.op = "register_module"
    /\ last.err = "E_SKILLS_MODULE_CONFLICT"
    /\ last.module \in DOMAIN module_to_skill
    /\ module_to_skill[last.module] # last.id
    /\ last.id \in DOMAIN skill_to_modules

\* the defaults a package declares
DeclaredDefaults(skill_id) ==
    IF skill_id = "s1" THEN ModuleExports(<<"repo", "skills", "s1", "dist", "index.js">>).settings.defaults
    ELSE EmptyObj

\* C6: an enable that takes a skill with non-empty declared defaults from not
\* enabled to enabled while no bucket exists leaves exactly the declared
\* defaults in the bucket; whenever a bucket exists, even an empty one, no
\* enable, disable or reload changes it.
C6_DefaultsOnce ==
    [][(last'.op \in {"enable", "disable", "reload_enabled"}) =>
          \A id \in {x \in SkillIds : Keys(DeclaredDefaults(x)) # {}} :
              /\ has_stored(xsettings, id) => Field(xsettings', id) = Field(xsettings, id)
              /\ (~has_stored(xsettings, id) /\ ~InSeq(enabled, id) /\ InSeq(enabled', id))
                    => Field(xsettings', id) = DeclaredDefaults(id)]_vars

\* s1 was enabled again on the fast path and the bucket still holds what the administrator wrote
C6_Witness ==
    /\ last.op = "enable" /\ last.err = "" /\ last.path = "fast"
    /\ InSeq(enabled, "s1")
    /\ Field(xsettings, "s1") = Obj("mode" :> Str("webhook"))

\* the entry list shows for an id
ListEntry(id) ==
    LET entries == list_impl(Cur).loaded
    IN IF \E i \in 1..Len(entries) : entries[i]["id"] = Str(id)
       THEN entries[CHOOSE i \in 1..Len(entries) : entries[i]["id"] = Str(id)]
       ELSE <<>>

HookThrew == last.op = "enable" /\ last.step = "on_enable"

\* a command or reload that runs enable_skill or disable_skill for id
Touches(id) ==
    \/ last'.op \in {"enable", "disable"} /\ last'.id = id
    \/ last'.op = "reload_enabled" /\ (InSeq(config'.enabled, id) \/ InSeq(enabled, id))

\* C7: after an enable whose hook threw, the command has re-raised the
\* failure, list shows the id with status=error, enabled=false and the thrown
\* message, and the id is not enabled; an error record stays as it is until
\* an enable or disable of that id.
C7_HookFailureRecorded ==
    /\ [](HookThrew =>
            /\ last.err # ""
            /\ ListEntry(last.id) # <<>>
            /\ ListEntry(last.id)["status"] = Str("error")
            /\ ListEntry(last.id)["enabled"] = FALSE
            /\ "error" \in DOMAIN ListEntry(last.id)
            /\ ListEntry(last.id)["error"] = Str(last.msg)
            /\ ~InSeq(enabled, last.id))
    /\ [][\A id \in DOMAIN loaded :
            (loaded[id].status = "error" /\ ~Touches(id)) =>
                /\ id \in DOMAIN loaded'
                /\ loaded'[id] = loaded[id]]_vars

\* the enable hook of s1 threw "boom" after registering its module
C7_Witness ==
    /\ HookThrew
    /\ last.msg = "boom"
    /\ last.id = "s1"
    /\ "m1" \in DOMAIN module_to_skill
    /\ loaded["s1"].status = "error"

\* C8: an enable command that takes the full path and fails at any step
\* leaves a loaded record with status=error and the failure message, and the
\* id is not in the enabled set.
C8_FullPathFailureRecorded ==
    (last.op = "enable" /\ last.path = "full" /\ last.err # "" /\ ~last.persist_threw) =>
        /\ last.id \in DOMAIN loaded
        /\ loaded[last.id].status = "error"
        /\ loaded[last.id].error = last.msg
        /\ ~InSeq(enabled, last.id)

\* C13: whenever a reload_enabled command that passed the guard has finished,
\* every id in the enabled set is in the re-read target enabled list.
C13_ReloadDisablesUntargeted ==
    (last.op = "reload_enabled" /\ last.err # "E_AGENT_FORBIDDEN") =>
        \A id \in SetOf(enabled) : InSeq(config.enabled, id)

\* C18: an execute or emit call of a skill reaches the dispatcher or the event
\* bus only while the skill is in the enabled set or in the activating set;
\* otherwise it fails with SkillDisabled and nothing is dispatched or
\* published.  The calls of an enable hook are those of the skill being
\* activated, and the calls of a disable hook come after the skill left the
\* enabled set and reach nothing.
C18_SandboxGate ==
    [][/\ (last'.op \in {"execute", "emit"}) =>
             IF InSeq(enabled, last'.id) \/ last'.id \in activating
             THEN last'.err # "E_SKILLS_DISABLED"
             ELSE /\ last'.err = "E_SKILLS_DISABLED"
                  /\ dispatched' = {}
                  /\ (last'.op = "emit") => ~last'.fired
       /\ (last'.op = "enable") => \A d \in dispatched' : d.skill = last'.id
       /\ (last'.op = "disable") => dispatched' = {}]_vars

\* a skill whose enable failed called execute through the context it kept and was refused
C18_Witness ==
    /\ last.op = "execute"
    /\ last.err = "E_SKILLS_DISABLED"
    /\ last.id \in DOMAIN contexts
    /\ last.id \in DOMAIN loaded
    /\ loaded[last.id].status = "error"
    /\ dispatched = {}

\* C19: register_module for a name that is in the module registry and owned by
\* no skill fails with ModuleConflict and leaves both ownership maps and the
\* registry unchanged; register_module for a name the calling skill already
\* owns succeeds, changes nothing and does not load the module again.
C19_NoAnnexation ==
    [][(last'.op = "register_module") =>
          /\ (last'.module \in xmodules /\ last'.module \notin DOMAIN module_to_skill) =>
                /\ last'.err = "E_SKILLS_MODULE_CONFLICT"
                /\ last'.loads = {}
                /\ UNCHANGED <<skill_to_modules, module_to_skill, xmodules>>
          /\ (last'.module \in DOMAIN module_to_skill /\ module_to_skill[last'.module] = last'.id) =>
                /\ last'.err = ""
                /\ last'.loads = {}
                /\ UNCHANGED <<skill_to_modules, module_to_skill, xmodules>>]_vars

\* a skill that owns a module asked for the settings module of the runtime and was refused
C19_Witness ==
    /\ last.op = "register_module"
    /\ last.module = "settings"
    /\ last.err = "E_SKILLS_MODULE_CONFLICT"
    /\ "settings" \in xmodules
    /\ "settings" \notin DOMAIN module_to_skill
    /\ last.id \in DOMAIN skill_to_modules

\* a skill registered again the module it owns
C19_Reregistered ==
    /\ last.op = "register_module"
    /\ last.err = ""
    /\ last.loads = {}
    /\ last.module \in DOMAIN module_to_skill
    /\ module_to_skill[last.module] = last.id

-----------------------------------------------------------------------------
(* Specification of the transport boundary: commands arrive with client-   *)
(* chosen context carriers and pass authorize_transport_cmd, while the     *)
(* skill that owns the module m1 is enabled and disabled.                  *)

\* what a client may put in a context carrier; Undef is "no carrier"
ClientCtxs ==
    {Undef,
     Obj("actor" :> Obj(("role" :> Str("owner")) @@ ("user_id" :> Str("u_mallory")))),
     Obj(("kernel_cap" :> Str(KERNEL_CAP)) @@ ("actor" :> Obj("role" :> Str("system"))))}

WithField(o, key, value) == IF value = Undef THEN o ELSE Put(o, key, value)

TransportCmd(module_name, root_ctx, params_ctx, params_sid) ==
    WithField(
        Obj(("_module" :> Str(module_name)) @@ ("_op" :> Str("enable"))
            @@ ("_params" :> WithField(WithField(Obj("id" :> Str("s1")), "_ctx", params_ctx),
                                       "_sid", params_sid))),
        "_ctx", root_ctx)

\* the command with both client carriers removed
StripClientCtx(cmd) ==
    LET no_root == IF is_plain_object(cmd) THEN Remove(cmd, "_ctx") ELSE cmd
    IN IF is_plain_object(no_root) /\ is_plain_object(Field(no_root, "_params"))
       THEN Put(no_root, "_params", Remove(Field(no_root, "_params"), "_ctx"))
       ELSE no_root

TransportSids == {Undef, Str("sid_admin"), Str("sid_owner"), Str("sid_stale"), Str("ws_conn1")}
TransportClients == {"rest", "ws"}

\* the modules transport commands address: m1 is the module s1 registers
TransportModules == {"skills", "m1"}

\* the commands clients send
TransportCmds ==
    {TransportCmd(module_name, root_ctx, params_ctx, params_sid) :
        module_name \in TransportModules, root_ctx \in ClientCtxs, params_ctx \in ClientCtxs,
        params_sid \in {Undef, Str("sid_admin")}}

\* what the transport itself knows of a request: client kind, session id, request id
TransportCtxs == {[client |-> client, sid |-> sid, wid |-> Str("wid_1")] :
                     client \in TransportClients, sid \in TransportSids}

\* commands that are not JSON-safe
MalformedCmds ==
    {Obj(("_module" :> Str("skills")) @@ ("_op" :> Str("list"))
         @@ ("_params" :> Obj("cb" :> [k |-> "fn", v |-> "fn"])))}

TransportInit == DefaultsInit

TransportRequest(cmd, wh_ctx) ==
    /\ \E out \in {authorize_transport_cmd(cmd, wh_ctx, module_to_skill, enabled)} :
          last' = [op |-> "transport", cmd |-> cmd, wh_ctx |-> wh_ctx,
                   err |-> out.err, forwarded |-> out.cmd]
    /\ UNCHANGED <<kernel_cap_secret, manager_vars, xsettings, settings_meta_by_skill>>

TransportMalformed ==
    \E cmd \in MalformedCmds, wh_ctx \in {c \in TransportCtxs : c.client = "rest" /\ c.sid = Undef} :
        TransportRequest(cmd, wh_ctx)

TransportNext ==
    \/ \E cmd \in TransportCmds, wh_ctx \in TransportCtxs : TransportRequest(cmd, wh_ctx)
    \/ TransportMalformed
    \/ ReloadEnabled(KernelCtx, Quiet)
    \/ Enable(SettingsSkill, AdminCtx, Quiet)
    \/ Disable(SettingsSkill, AdminCtx, Quiet)

SpecTransport == TransportInit /\ [][TransportNext]_vars

\* the session token authorize_transport_cmd resolves the actor from
TransportSid(cmd, wh_ctx) ==
    Coalesce(trim_non_empty(wh_ctx.sid), trim_non_empty(Field(Field(cmd, "_params"), "_sid")))

\* the context the guards read from the forwarded command, and its two carriers
SeenCtx == readCommandCtx(last.forwarded)
SeenRoot == to_ctx(Field(last.forwarded, "_ctx"))
SeenParams == to_ctx(ParamsCtx(last.forwarded))

\* C10: after injection neither carrier holds a capability token, an actor is
\* present only when the runtime resolved it from a valid session, and the
\* outcome and the context the guards see do not depend on the client's carriers.
C10_TransportCtxUntrusted ==
    (last.op = "transport") =>
        LET bare == authorize_transport_cmd(StripClientCtx(last.cmd), last.wh_ctx, module_to_skill, enabled)
        IN /\ last.err = bare.err
           /\ (last.err = "ok") =>
                 /\ \A c \in {SeenCtx, SeenRoot, SeenParams} :
                       /\ "kernel_cap" \notin Keys(c)
                       /\ ("actor" \in Keys(c)) =>
                             LET sid == TransportSid(last.cmd, last.wh_ctx)
                             IN /\ sid # Undef
                                /\ SessionRole(sid.v) # ""
                                /\ c.v["actor"] = Obj(("user_id" :> Str("u_" \o sid.v))
                                                      @@ ("role" :> Str(SessionRole(sid.v)))
                                                      @@ ("source" :> Str("session")))
                 /\ SeenCtx = readCommandCtx(bare.cmd)
                 /\ requireKernelCapOrActorRole(KERNEL_CAP, SeenCtx, "admin")
                        = requireKernelCapOrActorRole(KERNEL_CAP, readCommandCtx(bare.cmd), "admin")

\* the module a transport command addresses
TargetModule(cmd) == Field(cmd, "_module").v

\* the module is owned by a skill that is not in the enabled set
Gated(module_name) ==
    /\ module_name \in DOMAIN module_to_skill
    /\ ~InSeq(enabled, module_to_skill[module_name])

\* the rejections authorize_transport_cmd raises before it looks at the module
EarlierRejections == {"E_AGENT_BAD_XCMD", "E_AGENT_BAD_ENVELOPE", "E_AGENT_FORBIDDEN"}

\* C20: a transport command whose target module is owned by a skill outside
\* the enabled set is never dispatched, and is rejected with ModuleDisabled
\* once it passed the shape and session checks; a command whose module is
\* owned by no skill or by an enabled skill is never rejected with
\* ModuleDisabled; after a disable of id the check rejects every module id owns.
C20_ModuleGate ==
    /\ (last.op = "transport") =>
          /\ Gated(TargetModule(last.cmd)) => last.err # "ok"
          /\ (last.err \notin EarlierRejections) =>
                (last.err = "E_SKILLS_MODULE_DISABLED" <=> Gated(TargetModule(last.cmd)))
    /\ (last.op = "disable" /\ last.err = "") =>
          \A m \in DOMAIN module_to_skill :
              module_to_skill[m] = last.id =>
                  assert_module_command_allowed(module_to_skill, enabled, m) = "E_SKILLS_MODULE_DISABLED"

\* a command for the module of the disabled skill s1 was rejected
C20_Witness ==
    /\ last.op = "transport"
    /\ last.err = "E_SKILLS_MODULE_DISABLED"
    /\ TargetModule(last.cmd) = "m1"
    /\ module_to_skill["m1"] = "s1"
    /\ loaded["s1"].status = "disabled"
    /\ ~InSeq(enabled, "s1")

\* witness: a client that sent the real token and an owner actor in both carriers was
\* accepted with a session actor only
C10_Witness ==
    /\ last.op = "transport" /\ last.err = "ok"
    /\ ParamsCtx(last.cmd) = Obj(("kernel_cap" :> Str(KERNEL_CAP)) @@ ("actor" :> Obj("role" :> Str("system"))))
    /\ Field(last.cmd, "_ctx") # Undef
    /\ "actor" \in Keys(SeenCtx)
    /\ requireKernelCap(KERNEL_CAP, SeenCtx) = "E_AGENT_FORBIDDEN"

-----------------------------------------------------------------------------
(* Specification of command privileges: the four commands of the skill     *)
(* manager arrive from callers of every kind.                              *)

OwnerCtx == Obj("actor" :> Obj(("role" :> Str("owner")) @@ ("user_id" :> Str("u_owner"))))

\* a system-role actor without the token: what a skill's execute forwards for an
\* op outside its kernel_ops
SystemCtx == Obj("actor" :> Obj(("role" :> Str("system")) @@ ("source" :> Str("skill:s1"))))

\* a caller that guesses the token
ForgedCtx == Obj(("kernel_cap" :> Str("kcap_guess")) @@ ("actor" :> Obj("user_id" :> Str("u_guest"))))

\* the token alone, with no actor
TokenCtx == Obj("kernel_cap" :> Str(KERNEL_CAP))

Callers == {EmptyObj, CustomerCtx, AdminCtx, OwnerCtx, SystemCtx, ForgedCtx, TokenCtx, KernelCtx}

PrivilegeIds == {"s1", "s2"}

PrivilegesInit ==
    /\ config = DEFAULT_SKILL_CONFIG
    /\ ManagerFields_NoConfig
    /\ file = Doc(<<"s1", "s2">>, <<"s1">>, "none")
    /\ kernel_cap_secret = KERNEL_CAP
    /\ xsettings = EmptyObj
    /\ settings_meta_by_skill = <<>>
    /\ last = [op |-> "init"]

PrivilegesNext ==
    \/ \E id \in PrivilegeIds, caller_ctx \in Callers : Enable(id, caller_ctx, Quiet)
    \/ \E id \in PrivilegeIds, caller_ctx \in Callers : Disable(id, caller_ctx, Quiet)
    \/ \E caller_ctx \in Callers : ReloadEnabled(caller_ctx, Quiet)
    \/ \E caller_ctx \in Callers : List(caller_ctx)

SpecPrivileges == PrivilegesInit /\ [][PrivilegesNext]_vars

\* the context carries the installed capability token
CarriesToken(ctx) == Field(ctx, "kernel_cap") = Str(kernel_cap_secret)

\* the context carries an actor of role admin, owner or system
AdminOrHigher(ctx) == Field(Field(ctx, "actor"), "role") \in {Str("admin"), Str("owner"), Str("system")}

\* the state the skill manager keeps and persists
ManagerState ==
    <<config, file, enabled, activating, loaded, skill_to_modules, module_to_skill, runtime_by_skill,
      xmodules, contexts, settings_meta_by_skill, xsettings, kernel_cap_secret>>

-----------------------------------------------------------------------------
(* Specification of the settings commands of the skill manager: s1, which  *)
(* declares bot_token sensitive, is enabled and disabled while             *)
(* administrators read and update its settings.                            *)

\* the command { _module: "skills", _op: "update_settings", _params: { id, settings, _ctx } }
UpdateCmd(id, settings, caller_ctx) ==
    Obj(("_module" :> Str("skills")) @@ ("_op" :> Str("update_settings"))
        @@ ("_params" :> Obj(("id" :> Str(id)) @@ ("settings" :> settings) @@ ("_ctx" :> caller_ctx))))

\* what administrators send as settings; the last is not a JSON object
SecretPatches ==
    {Obj("bot_token" :> Str("123:abc")), Obj("bot_token" :> Str(MASK_SENTINEL)), Obj("bot_token" :> Str("")),
     Obj("mode" :> Str("webhook")), Str("webhook")}

SecretsIds == {"s1", "s5"}
SecretsCallers == {AdminCtx, CustomerCtx}
SecretsEnvs == {Quiet, Env(FALSE, TRUE, "ok")}

GetSettings(id, caller_ctx) ==
    \E out \in {The({get_settings_impl(cur, kernel_cap_secret, SkillsCmd("get_settings", id, caller_ctx)) :
                     cur \in {Cur}})} :
        /\ Commit(out.st)
        /\ last' = [op |-> "get_settings", id |-> id, caller |-> caller_ctx, err |-> out.err,
                    settings |-> out.settings]

UpdateSettings(id, caller_ctx, settings, env) ==
    \E out \in {The({update_settings_impl(cur, kernel_cap_secret, UpdateCmd(id, settings, caller_ctx), env) :
                     cur \in {Cur}})} :
        /\ Commit(out.st)
        /\ last' = [op |-> "update_settings", id |-> id, caller |-> caller_ctx, err |-> out.err,
                    settings |-> out.settings]

SecretsInit == DefaultsInit

SecretsNext ==
    \/ ReloadEnabled(KernelCtx, Quiet)
    \/ Enable(SettingsSkill, AdminCtx, Quiet)
    \/ Disable(SettingsSkill, AdminCtx, Quiet)
    \/ \E id \in SecretsIds, caller_ctx \in SecretsCallers : GetSettings(id, caller_ctx)
    \/ \E id \in SecretsIds, caller_ctx \in SecretsCallers, settings \in SecretPatches, env \in SecretsEnvs :
          UpdateSettings(id, caller_ctx, settings, env)

SpecSecrets == SecretsInit /\ [][SecretsNext]_vars

\* the sensitive paths registered for a skill
RegisteredSensitive(skill_id) ==
    LET meta == resolve_skill_meta(settings_meta_by_skill, skill_id)
    IN {meta.sensitive[i] : i \in 1..Len(meta.sensitive)}

\* C12: the settings object returned by get_settings and by update_settings
\* holds the sentinel at every declared sensitive path whose stored value is
\* non-empty, never the stored value.
C12_SecretsMasked ==
    (last.op \in {"get_settings", "update_settings"} /\ last.err = "") =>
        \A p \in RegisteredSensitive(last.id) :
            ~IsEmptyValue(getByPath(Bucket(last.id), p)) =>
                /\ getByPath(last.settings, p) = Str(MASK_SENTINEL)
                /\ getByPath(last.settings, p) # getByPath(Bucket(last.id), p)

-----------------------------------------------------------------------------
(* Specification of bulk reloads: the document lists several skills in     *)
(* every order, some of which cannot be enabled.                           *)

\* target lists: s3 exports no skill, the import of s4 throws
ReloadOrders ==
    {<<"s3", "s1", "s2">>, <<"s1", "s3", "s2">>, <<"s1", "s2", "s3">>, <<"s4", "s2">>, <<"s2", "s4", "s1">>}

ReloadDocs == {Doc(q, q, "none") : q \in ReloadOrders}

\* the hooks throw, or the settings store rejects the defaults of s1
ReloadEnvs == {Quiet, Env(FALSE, FALSE, "throw"), Env(FALSE, TRUE, "ok")}

ReloadCommandEnvs == {Quiet, Env(TRUE, FALSE, "ok")}

ReloadInit ==
    /\ config = DEFAULT_SKILL_CONFIG
    /\ ManagerFields_NoConfig
    /\ file \in ReloadDocs
    /\ kernel_cap_secret = KERNEL_CAP
    /\ xsettings = EmptyObj
    /\ settings_meta_by_skill = <<>>
    /\ last = [op |-> "init"]

ReloadNext ==
    \/ \E env \in ReloadEnvs : ReloadEnabled(KernelCtx, env)
    \/ \E id \in PrivilegeIds, env \in ReloadCommandEnvs : Enable(id, AdminCtx, env)
    \/ \E id \in PrivilegeIds, env \in ReloadCommandEnvs : Disable(id, AdminCtx, env)
    \/ \E doc \in ReloadDocs : EditFile(doc)

SpecReload == ReloadInit /\ [][ReloadNext]_vars

\* how the enable of a target ended during the last reload
EnableFailed(id) == ("failed:" \o id) \in last.trace
EnableSucceeded(id) == ("enabled:" \o id) \in last.trace

\* C14: when the enable of some target fails during a reload, the reload
\* returns ok, every target was attempted, each failing target ends with
\* status=error and not enabled, and each target whose enable succeeded ends
\* enabled with status=loaded, wherever it stands in the target list.
C14_ReloadIsolatesFailures ==
    (last.op = "reload_enabled" /\ \E id \in SetOf(config.enabled) : EnableFailed(id)) =>
        /\ last.err = ""
        /\ \A id \in SetOf(config.enabled) :
              /\ EnableFailed(id) \/ EnableSucceeded(id)
              /\ EnableFailed(id) =>
                    /\ ListEntry(id)["status"] = Str("error")
                    /\ ListEntry(id)["enabled"] = FALSE
                    /\ ~InSeq(enabled, id)
              /\ EnableSucceeded(id) =>
                    /\ ListEntry(id)["status"] = Str("loaded")
                    /\ ListEntry(id)["enabled"] = TRUE
                    /\ InSeq(enabled, id)

\* the first target failed and the two after it were enabled
C14_Witness ==
    /\ last.op = "reload_enabled"
    /\ Len(config.enabled) = 3
    /\ EnableFailed(config.enabled[1])
    /\ EnableSucceeded(config.enabled[2])
    /\ EnableSucceeded(config.enabled[3])
    /\ SetOf(enabled) = {config.enabled[2], config.enabled[3]}

-----------------------------------------------------------------------------
(* Specification of the guard module: a token is installed, or not, and    *)
(* the three checks are applied to contexts of every shape.                *)

\* a second token of valid length
OTHER_CAP == "kcap_fedcba9876543210"

\* what setKernelCapSecret is called with
SecretInputs == {Str(KERNEL_CAP), Str(OTHER_CAP), Str("kcap_short"), Str(""), Num(7)}

ActorCtx(actor) == Obj("actor" :> actor)

\* the contexts the checks are applied to
GuardCtxs ==
    {EmptyObj, TokenCtx, KernelCtx, ForgedCtx, CustomerCtx, AdminCtx, OwnerCtx, SystemCtx,
     Obj("kernel_cap" :> Str("")), Obj("kernel_cap" :> Str(OTHER_CAP)), Obj("kernel_cap" :> Num(7)),
     Obj(("kernel_cap" :> Str(OTHER_CAP)) @@ ("actor" :> Obj("role" :> Str("customer")))),
     ActorCtx(EmptyObj), ActorCtx(Obj("role" :> Str(""))), ActorCtx(Obj("role" :> Str("superuser"))),
     ActorCtx(Obj("role" :> Num(4)))}

GuardsInit ==
    /\ ManagerConstructed
    /\ kernel_cap_secret = ""
    /\ xsettings = EmptyObj
    /\ settings_meta_by_skill = <<>>
    /\ last = [op |-> "init"]

SetKernelCapSecret(kernel_cap) ==
    /\ \E out \in {setKernelCapSecret(kernel_cap_secret, kernel_cap)} :
          /\ kernel_cap_secret' = out.secret
          /\ last' = [op |-> "setKernelCapSecret", ctx |-> EmptyObj, role |-> "", result |-> out.err]
    /\ UNCHANGED <<manager_vars, xsettings, settings_meta_by_skill>>

RequireKernelCap(ctx) ==
    /\ last' = [op |-> "requireKernelCap", ctx |-> ctx, role |-> "",
                result |-> requireKernelCap(kernel_cap_secret, ctx)]
    /\ UNCHANGED <<kernel_cap_secret, manager_vars, xsettings, settings_meta_by_skill>>

RequireActorRole(ctx, role) ==
    /\ last' = [op |-> "requireActorRole", ctx |-> ctx, role |-> role,
                result |-> requireActorRole(ctx, role)]
    /\ UNCHANGED <<kernel_cap_secret, manager_vars, xsettings, settings_meta_by_skill>>

RequireKernelCapOrActorRole(ctx, role) ==
    /\ last' = [op |-> "requireKernelCapOrActorRole", ctx |-> ctx, role |-> role,
                result |-> requireKernelCapOrActorRole(kernel_cap_secret, ctx, role)]
    /\ UNCHANGED <<kernel_cap_secret, manager_vars, xsettings, settings_meta_by_skill>>

GuardsNext ==
    \/ \E kernel_cap \in SecretInputs : SetKernelCapSecret(kernel_cap)
    \/ \E ctx \in GuardCtxs : RequireKernelCap(ctx)
    \/ \E ctx \in GuardCtxs, role \in KnownRoles : RequireActorRole(ctx, role)
    \/ \E ctx \in GuardCtxs, role \in KnownRoles : RequireKernelCapOrActorRole(ctx, role)

SpecGuards == GuardsInit /\ [][GuardsNext]_vars

\* ctx.capability_token equals the installed token
TokenMatches(ctx) == kernel_cap_secret # "" /\ Field(ctx, "kernel_cap") = Str(kernel_cap_secret)

\* C15: require_capability raises InitError when no token is installed,
\* whatever the context carries; with a token installed it passes exactly
\* when ctx.capability_token equals it and raises Forbidden otherwise; it
\* never changes the installed token.
C15_RequireCapability ==
    /\ [](last.op = "requireKernelCap" =>
            /\ (kernel_cap_secret = "") => last.result = "E_AGENT_GUARD_INIT"
            /\ (kernel_cap_secret # "") =>
                  /\ last.result = "ok" <=> TokenMatches(last.ctx)
                  /\ last.result # "ok" => last.result = "E_AGENT_FORBIDDEN")
    /\ [][last'.op = "requireKernelCap" => kernel_cap_secret' = kernel_cap_secret]_vars

\* the check met a context holding a well-formed token before any token was installed
C15_Witness ==
    /\ last.op = "requireKernelCap"
    /\ kernel_cap_secret = ""
    /\ last.ctx = TokenCtx
    /\ last.result = "E_AGENT_GUARD_INIT"

\* the actor role a context carries, "" when it carries none
ActorRoleOf(ctx) ==
    IF Field(Field(ctx, "actor"), "role").k = "str" THEN Field(Field(ctx, "actor"), "role").v ELSE ""

\* customer < admin < owner < system
RoleOrder == <<"customer", "admin", "owner", "system">>
RankOf(role) == CHOOSE i \in 1..Len(RoleOrder) : RoleOrder[i] = role

\* C16: require_role passes iff the context carries an actor whose role is one
\* of the four known roles and ranks at least min_role; in every other case
\* it fails with Forbidden.
C16_RequireRole ==
    (last.op = "requireActorRole") =>
        /\ last.result = "ok" <=>
              (ActorRoleOf(last.ctx) \in SetOf(RoleOrder) /\ RankOf(ActorRoleOf(last.ctx)) >= RankOf(last.role))
        /\ last.result # "ok" => last.result = "E_AGENT_FORBIDDEN"

\* C17: require_capability_or_role passes iff the capability check or the
\* role check passes; when both fail the error is the role check's Forbidden,
\* also when the capability check failed with InitError.
C17_CapabilityOrRole ==
    (last.op = "requireKernelCapOrActorRole") =>
        LET cap == requireKernelCap(kernel_cap_secret, last.ctx)
            by_role == requireActorRole(last.ctx, last.role)
        IN /\ last.result = "ok" <=> (cap = "ok" \/ by_role = "ok")
           /\ last.result # "ok" => (last.result = by_role /\ last.result = "E_AGENT_FORBIDDEN")

\* both checks failed while no token was installed, and Forbidden came out
C17_Witness ==
    /\ last.op = "requireKernelCapOrActorRole"
    /\ kernel_cap_secret = ""
    /\ requireKernelCap(kernel_cap_secret, last.ctx) = "E_AGENT_GUARD_INIT"
    /\ last.ctx = Obj(("kernel_cap" :> Str(OTHER_CAP)) @@ ("actor" :> Obj("role" :> Str("customer"))))
    /\ last.role = "admin"
    /\ last.result = "E_AGENT_FORBIDDEN"

\* C22: once a token is installed no step changes it, a second initialize with
\* another valid secret included, and an initialize that fails with InitError
\* leaves the stored token as it was.
C22_TokenImmutable ==
    [][/\ kernel_cap_secret # "" => kernel_cap_secret' = kernel_cap_secret
       /\ (last'.op = "setKernelCapSecret" /\ last'.result = "E_AGENT_GUARD_INIT")
             => kernel_cap_secret' = kernel_cap_secret]_vars

\* the part of C22 the code keeps: a failed initialize changes nothing, and
\* nothing but initialize writes the token
C22_FailedInitKeepsToken ==
    [][/\ (last'.op = "setKernelCapSecret" /\ last'.result = "E_AGENT_GUARD_INIT")
             => kernel_cap_secret' = kernel_cap_secret
       /\ last'.op # "setKernelCapSecret" => kernel_cap_secret' = kernel_cap_secret]_vars

-----------------------------------------------------------------------------
(* Specification of the hooks around enable and disable: skills that own   *)
(* several modules are enabled, disabled and enabled again while hooks and *)
(* module ops fail and the document may reject writes.                     *)

HooksIds == {"s1", "s2", "s3"}
HooksEnableEnvs == {Env(p, FALSE, h) : p \in BOOLEAN, h \in HookVariants}
HooksDisableEnvs == {Env(p, FALSE, "ok") : p \in BOOLEAN}
HooksModules == {"m2", "m3"}

HooksInit ==
    /\ config = DEFAULT_SKILL_CONFIG
    /\ ManagerFields_NoConfig
    /\ file = Doc(<<"s1", "s2", "s3">>, <<>>, "none")
    /\ kernel_cap_secret = KERNEL_CAP
    /\ xsettings = EmptyObj
    /\ settings_meta_by_skill = <<>>
    /\ last = [op |-> "init"]

HooksNext ==
    \/ \E id \in HooksIds, env \in HooksEnableEnvs : Enable(id, AdminCtx, env)
    \/ \E id \in HooksIds, env \in HooksDisableEnvs : Disable(id, AdminCtx, env)
    \/ ReloadEnabled(KernelCtx, Quiet)
    \/ \E skill_id \in HooksIds, module_name \in HooksModules : SandboxRegisterModule(skill_id, module_name)

SpecHooks == HooksInit /\ [][HooksNext]_vars

\* the code of the skills that runs while a skill is disabled: the disable
\* hook and the disable ops of the modules
DisableCode == {"on_disable"} \cup {op_key(module_name, "disable") : module_name \in {"m1", "m2", "m3"}}

\* the modules a skill owns by _skill_to_modules
module_to_skill_inverse(skill_id) ==
    IF skill_id \in DOMAIN skill_to_modules THEN skill_to_modules[skill_id] ELSE {}

\* C26: while disable(id) runs, every sandbox execute or emit made by the
\* skill's disable hook or by the disable op of a module it owns fails with
\* SkillDisabled.
C26_DisableCallsRefused ==
    (last.op \in {"enable", "disable", "reload_enabled"}) =>
        \A who \in DisableCode, call \in {"execute", "emit"}, result \in (CallErrors \cup {"ok"}) \ {"E_SKILLS_DISABLED"} :
            CallMark(who, call, result) \notin last.trace

\* s1 was disabled: its hook and the disable ops of two of its modules called
\* execute and emit, and every call was refused
C26_Witness ==
    /\ last.op = "disable" /\ last.id = "s1" /\ last.err = ""
    /\ module_to_skill_inverse("s1") = {"m1", "m2"}
    /\ \A who \in {"on_disable", "m1.disable", "m2.disable"}, call \in {"execute", "emit"} :
          CallMark(who, call, "E_SKILLS_DISABLED") \in last.trace
    /\ dispatched = {}

\* C27: a disable of an allow-listed id that is not undone ends with the id
\* outside the enabled set and its record status=disabled, enabled=false,
\* whether or not the disable hook throws or a module's disable op fails or
\* is missing; the ownership maps are unchanged and the disable op of every
\* owned module is attempted.
C27_DisableAlwaysCompletes ==
    [][(last'.op = "disable" /\ Admitted(last') /\ InSeq(config.allow, last'.id) /\ ~last'.persist_threw) =>
          /\ last'.err = ""
          /\ ~InSeq(enabled', last'.id)
          /\ last'.id \in DOMAIN loaded'
          /\ loaded'[last'.id].status = "disabled"
          /\ ~loaded'[last'.id].enabled
          /\ UNCHANGED <<skill_to_modules, module_to_skill>>
          /\ \A module_name \in module_to_skill_inverse(last'.id) :
                ("module_op:" \o op_key(module_name, "disable")) \in last'.trace]_vars

\* s1 was disabled: its hook threw, the disable op of m1 failed, and the op
\* of m3, which m3 does not have, was attempted after it
C27_Witness ==
    /\ last.op = "disable" /\ last.id = "s1" /\ last.err = ""
    /\ "on_disable_failed" \in last.trace
    /\ "module_op_failed:m1.disable" \in last.trace
    /\ "module_op:m3.disable" \in last.trace
    /\ module_to_skill_inverse("s1") = {"m1", "m3"}
    /\ loaded["s1"].status = "disabled"
    /\ ~InSeq(enabled, "s1")

\* two records of a skill agree on version, capabilities and source
SameIdentity(before, after) ==
    /\ after.version = before.version
    /\ after.capabilities = before.capabilities
    /\ after.source = before.source

\* C28: an enable that takes the fast path resolves nothing, loads no code and
\* runs no enable hook; it runs the defaults bootstrap and the enable op of
\* every owned module and adds the id to the enabled set; the record becomes
\* status=loaded with the version, capabilities and source of the disabled
\* record, which the disable took over from the record before it.
C28_FastPathReenable ==
    [][/\ (last'.op = "enable" /\ last'.path = "fast" /\ last'.err = "") =>
             /\ last'.trace \cap {"resolve", "import", "on_enable"} = {}
             /\ "bootstrap" \in last'.trace
             /\ \A module_name \in module_to_skill_inverse(last'.id) :
                   ("module_op:" \o op_key(module_name, "enable")) \in last'.trace
             /\ InSeq(enabled', last'.id)
             /\ loaded'[last'.id].status = "loaded"
             /\ loaded'[last'.id].enabled
             /\ loaded[last'.id].status = "disabled"
             /\ SameIdentity(loaded[last'.id], loaded'[last'.id])
             /\ UNCHANGED <<runtime_by_skill, skill_to_modules, module_to_skill>>
       /\ (last'.op = "disable" /\ last'.err = "" /\ last'.id \in DOMAIN loaded
               /\ last'.id \in DOMAIN runtime_by_skill) =>
             SameIdentity(loaded[last'.id], loaded'[last'.id])]_vars

\* s1, disabled earlier, was enabled again on the fast path: the bootstrap ran
\* and the enable op of its module m1 was invoked
C28_Witness ==
    /\ last.op = "enable" /\ last.id = "s1" /\ last.err = "" /\ last.path = "fast"
    /\ "bootstrap" \in last.trace
    /\ "module_op:m1.enable" \in last.trace
    /\ InSeq(enabled, "s1")
    /\ loaded["s1"].status = "loaded"
    /\ loaded["s1"].version = "1.0.0"

\* C29: an enable of an allow-listed skill that is enabled and loaded is a
\* no-op: no resolution, import, bootstrap or hook runs, and the enabled set,
\* the loaded map, the runtime records and both ownership maps are unchanged.
C29_EnableIdempotent ==
    [][(/\ last'.op = "enable" /\ Admitted(last')
        /\ InSeq(config.allow, last'.id) /\ InSeq(enabled, last'.id)
        /\ last'.id \in DOMAIN loaded /\ loaded[last'.id].status = "loaded") =>
          /\ last'.path = "noop"
          /\ last'.trace \cap {"resolve", "import", "bootstrap", "on_enable", "on_disable"} = {}
          /\ \A module_name \in module_to_skill_inverse(last'.id) :
                ("module_op:" \o op_key(module_name, "enable")) \notin last'.trace
          /\ UNCHANGED <<enabled, loaded, runtime_by_skill, skill_to_modules, module_to_skill,
                         settings_meta_by_skill, xsettings, xmodules, contexts>>]_vars

\* s1, enabled and loaded, owning m1, was enabled once more and the command returned ok
C29_Witness ==
    /\ last.op = "enable" /\ last.id = "s1" /\ last.err = "" /\ last.path = "noop"
    /\ InSeq(enabled, "s1")
    /\ loaded["s1"].status = "loaded"
    /\ module_to_skill_inverse("s1") = {"m1"}

Statuses == {"unloaded", "loaded", "disabled", "error"}

\* the status changes of the lifecycle state machine
LifecycleTransitions ==
    {<<"enable", "unloaded", "loaded">>, <<"enable", "unloaded", "error">>,
     <<"disable", "loaded", "disabled">>, <<"enable", "disabled", "loaded">>,
     <<"enable", "error", "loaded">>, <<"enable", "error", "error">>}

\* C30: every change of a skill's recorded status made by an enable, disable
\* or reload_enabled command is unloaded to loaded or error (enable), loaded
\* to disabled (disable), disabled to loaded (enable) or error to loaded or
\* error (enable).
C30_LifecycleTransitions ==
    (last.op \in {"enable", "disable", "reload_enabled"}) =>
        \A op \in {"enable", "disable"}, id \in SkillIds, from \in Statuses, to \in Statuses :
            (StatusMark(op, id, from, to) \in last.trace /\ from # to) => <<op, from, to>> \in LifecycleTransitions

\* the status changes the commands do make
ReachableTransitions ==
    LifecycleTransitions \cup {<<"disable", "unloaded", "disabled">>, <<"disable", "error", "disabled">>,
                               <<"enable", "disabled", "error">>}

C30_ReachableTransitions ==
    (last.op \in {"enable", "disable", "reload_enabled"}) =>
        \A op \in {"enable", "disable"}, id \in SkillIds, from \in Statuses, to \in Statuses :
            (StatusMark(op, id, from, to) \in last.trace /\ from # to) => <<op, from, to>> \in ReachableTransitions

-----------------------------------------------------------------------------
(* Specification of sentinel handling on the write path: patches of every  *)
(* shape, sentinel or not, at, above and below the declared paths.         *)

SentinelPatches ==
    Patches \cup {Obj("a" :> Obj("c" :> Str("new"))), Obj("a" :> Str("new")),
                  Obj("a" :> Obj(("b" :> Str(MASK_SENTINEL)) @@ ("c" :> Str(MASK_SENTINEL)))),
                  Obj(("token" :> Arr(<<Str(MASK_SENTINEL)>>)) @@ ("a" :> Obj("b" :> Obj("d" :> Str(MASK_SENTINEL)))))}

SentinelNext == \E patch \in SentinelPatches : SettingsSetSkill(patch)

SpecSentinel == SettingsInit /\ [][SentinelNext]_vars

\* no declared sensitive path of doc holds the sentinel
SentinelFree(doc) == \A p \in DeclaredSensitive : getByPath(doc, p) # Str(MASK_SENTINEL)

\* a sentinel in the patch at p stands for the existing value, or for nothing
SentinelResolvedAt(p) ==
    getByPath(last.patch, p) = Str(MASK_SENTINEL) => getByPath(StoredBucket, p) = getByPath(last.before, p)

\* a non-sentinel patch value at p is the value stored at p
ReplacedAt(p) ==
    getByPath(last.patch, p) \notin {Undef, Str(MASK_SENTINEL)}
        => getByPath(StoredBucket, p) = getByPath(last.patch, p)

\* a patch value at p that is neither a sentinel nor an object is the value stored at p
ScalarReplacedAt(p) ==
    (getByPath(last.patch, p) \notin {Undef, Str(MASK_SENTINEL)} /\ ~is_plain_object(getByPath(last.patch, p)))
        => getByPath(StoredBucket, p) = getByPath(last.patch, p)

\* C24 as stated: when the existing document holds no sentinel at a declared
\* sensitive path, neither does the result of the write; a sentinel in the
\* patch is replaced by the existing value or dropped; and every non-sentinel
\* patch value at a sensitive path replaces the existing value.
C24_AnyPatchValueReplaces ==
    (last.op = "set_skill" /\ SentinelFree(last.before)) =>
        /\ SentinelFree(StoredBucket)
        /\ \A p \in DeclaredSensitive : SentinelResolvedAt(p) /\ ReplacedAt(p)

\* C24 (amended): when the existing document holds no sentinel at a declared
\* sensitive path, neither does the result of the write; a sentinel in the
\* patch at a sensitive path leaves there the existing value, or nothing when
\* there was none; a patch value at a sensitive path that is neither the
\* sentinel nor an object replaces the existing value (an object is
\* deep-merged after the sentinels inside it are resolved).
C24_SentinelNeverStored ==
    (last.op = "set_skill" /\ SentinelFree(last.before)) =>
        /\ SentinelFree(StoredBucket)
        /\ \A p \in DeclaredSensitive : SentinelResolvedAt(p) /\ ScalarReplacedAt(p)

\* one write carried the sentinel at two declared paths: over a stored secret,
\* which stayed, and over nothing, where nothing was stored
C24_Witness ==
    /\ last.op = "set_skill"
    /\ DeclaredSensitive = {<<"token">>, <<"a">>}
    /\ last.patch = Obj(("token" :> Str(MASK_SENTINEL)) @@ ("a" :> Str(MASK_SENTINEL)))
    /\ last.before = Obj("token" :> Str("abc123"))
    /\ StoredBucket = Obj("token" :> Str("abc123"))

-----------------------------------------------------------------------------
(* Specification of deepMerge: a document is merged with patches of every  *)
(* shape, the result becoming the next base.                               *)

MergeVals(key) ==
    IF key = "token"
    THEN {Str("abc123"), Null, Arr(<<>>)}
    ELSE {Str("x"), Arr(<<Num(1)>>), Arr(<<Num(1), Num(2)>>), Obj("b" :> Str("y")),
          Obj("b" :> Obj("c" :> Num(1))), Obj(("b" :> Obj("d" :> Arr(<<Num(2)>>))) @@ ("e" :> Null)), EmptyObj}

MergeDocs == DocsOver(MergeVals)

MergeInit ==
    /\ ManagerConstructed
    /\ kernel_cap_secret = KERNEL_CAP
    /\ settings_meta_by_skill = <<>>
    /\ xsettings \in MergeDocs
    /\ last = [op |-> "init"]

DeepMerge(patch) ==
    /\ \E out \in {deepMerge(xsettings, patch)} :
          /\ xsettings' = out
          /\ last' = [op |-> "deepMerge", base |-> xsettings, patch |-> patch, out |-> out]
    /\ UNCHANGED <<kernel_cap_secret, manager_vars, settings_meta_by_skill>>

MergeNext == \E patch \in MergeDocs : DeepMerge(patch)

SpecMerge == MergeInit /\ [][MergeNext]_vars

\* out is what the contract of deep_merge prescribes for base and patch
RECURSIVE Merged(_, _, _)
Merged(base, patch, out) ==
    /\ is_plain_object(out)
    /\ Keys(out) = Keys(base) \cup Keys(patch)
    /\ \A key \in Keys(patch) :
          IF is_plain_object(Field(base, key)) /\ is_plain_object(patch.v[key])
          THEN Merged(base.v[key], patch.v[key], out.v[key])
          ELSE out.v[key] = patch.v[key]
    /\ \A key \in Keys(base) \ Keys(patch) : out.v[key] = base.v[key]

-----------------------------------------------------------------------------
(* Specification of the rewrite of the backing document: the document is   *)
(* a JSON value here, and persist_enabled_to_agent_config is applied to    *)
(* documents of every shape.                                               *)

Bool(b) == [k |-> "bool", v |-> b]

\* the file at _config_path: missing, not JSON, or a JSON value
FileAbsent == [kind |-> "absent", doc |-> Undef]
FileGarbage == [kind |-> "garbage", doc |-> Undef]
FileJson(doc) == [kind |-> "json", doc |-> doc]

\* local_paths entries as JSON
PathsJson(local_paths) == Arr([i \in 1..Len(local_paths) |-> [k |-> "path", v |-> local_paths[i]]])

\* the skills object persist_enabled_to_agent_config builds
SkillsSection(existing_skills, existing_resolve, cfg, enabled_list) ==
    Spread(existing_skills,
           Obj(("allow" :> StrArr(cfg.allow)) @@ ("enabled" :> StrArr(enabled_list))
               @@ ("resolve" :> Spread(existing_resolve,
                                       Obj(("node_modules" :> Bool(cfg.node_modules))
                                           @@ ("local_paths" :> PathsJson(cfg.local_paths))))))) 

\* a rewrite that starts from an empty document
write_agent_config_Fresh(on_disk, cfg, enabled_ids) ==
    IF on_disk.kind = "garbage" THEN [err |-> "SyntaxError", enabled |-> <<>>, file |-> on_disk]
    ELSE LET enabled_list == SelectSeq(SortNames(SetOf(enabled_ids)), LAMBDA id : InSeq(cfg.allow, id))
         IN [err |-> "", enabled |-> enabled_list,
             file |-> FileJson(Obj("skills" :> SkillsSection(EmptyObj, EmptyObj, cfg, enabled_list)))]

\* persist_enabled_to_agent_config over the JSON document: [err, enabled, file]
\* with enabled the list stored in _config.skills.enabled
write_agent_config(on_disk, cfg, enabled_ids) ==
    LET enabled_list == SelectSeq(SortNames(SetOf(enabled_ids)), LAMBDA id : InSeq(cfg.allow, id))
    IN IF on_disk.kind = "garbage" THEN [err |-> "SyntaxError", enabled |-> enabled_list, file |-> on_disk]
       ELSE LET parsed == IF on_disk.kind = "json" /\ is_plain_object(on_disk.doc) THEN on_disk.doc ELSE EmptyObj
                existing_skills == IF is_plain_object(Field(parsed, "skills")) THEN Field(parsed, "skills")
                                   ELSE EmptyObj
                existing_resolve == IF is_plain_object(Field(existing_skills, "resolve"))
                                    THEN Field(existing_skills, "resolve") ELSE EmptyObj
            IN [err |-> "", enabled |-> enabled_list,
                file |-> FileJson(Put(parsed, "skills",
                                      SkillsSection(existing_skills, existing_resolve, cfg, enabled_list)))]

\* documents an operator keeps at _config_path
PersistDocs ==
    {FileAbsent, FileGarbage, FileJson(EmptyObj), FileJson(Arr(<<Str("x")>>)),
     FileJson(Obj(("ui" :> Obj("theme" :> Str("dark"))) @@ ("name" :> Str("agent")))),
     FileJson(Obj(("ui" :> Obj("theme" :> Str("dark"))) @@ ("skills" :> Str("none")))),
     FileJson(Obj(("ui" :> Arr(<<Num(1), Num(2)>>))
                  @@ ("skills" :> Obj(("allow" :> StrArr(<<"s1", "s2">>)) @@ ("enabled" :> StrArr(<<"s9">>))
                                      @@ ("note" :> Str("keep")) @@ ("resolve" :> Str("bad")))))),
     FileJson(Obj(("enabled" :> Str("top")) @@ ("allow" :> Null)
                  @@ ("skills" :> Obj(("limits" :> Obj("max" :> Num(3)))
                                      @@ ("resolve" :> Obj(("registry" :> Str("https://r"))
                                                           @@ ("node_modules" :> Bool(FALSE))
                                                           @@ ("local_paths" :> Arr(<<>>)))))))) }

\* the configuration in memory and the enabled set, in insertion order
PersistAllows == {<<"s1", "s2", "s3">>, <<"s2">>, <<>>}
PersistEnabled == {<<>>, <<"s1">>, <<"s2", "s1">>, <<"s3", "s1", "s2">>}

PersistInit ==
    /\ ManagerFields_NoConfig
    /\ kernel_cap_secret = KERNEL_CAP
    /\ xsettings = EmptyObj
    /\ settings_meta_by_skill = <<>>
    /\ file = FileAbsent
    /\ config = DEFAULT_SKILL_CONFIG
    /\ last = [op |-> "init"]

\* the state persist is called in: a configuration was read, skills were enabled
PersistArrange(allow, enabled_ids, node_modules) ==
    /\ config' = [allow |-> allow, enabled |-> <<>>, node_modules |-> node_modules, local_paths |-> LocalRoots]
    /\ enabled' = enabled_ids
    /\ last' = [op |-> "arrange"]
    /\ UNCHANGED <<kernel_cap_secret, file, activating, loaded, skill_to_modules, module_to_skill,
                   runtime_by_skill, xmodules, contexts, dispatched, tasks, settings_meta_by_skill, xsettings>>

\* an operator replaces the document
PersistEdit(on_disk) ==
    /\ file' = on_disk
    /\ last' = [op |-> "edit_file"]
    /\ UNCHANGED <<kernel_cap_secret, config, enabled, activating, loaded, skill_to_modules, module_to_skill,
                   runtime_by_skill, xmodules, contexts, dispatched, tasks, settings_meta_by_skill, xsettings>>

PersistEnabled_ToAgentConfig ==
    /\ \E out \in {write_agent_config(file, config, enabled)} :
          /\ file' = out.file
          /\ config' = [config EXCEPT !.enabled = out.enabled]
          /\ last' = [op |-> "persist", err |-> out.err, before |-> file]
    /\ UNCHANGED <<kernel_cap_secret, enabled, activating, loaded, skill_to_modules, module_to_skill,
                   runtime_by_skill, xmodules, contexts, dispatched, tasks, settings_meta_by_skill, xsettings>>

PersistNext ==
    \/ \E allow \in PersistAllows, enabled_ids \in PersistEnabled, node_modules \in BOOLEAN :
          PersistArrange(allow, enabled_ids, node_modules)
    \/ \E on_disk \in PersistDocs : PersistEdit(on_disk)
    \/ PersistEnabled_ToAgentConfig

SpecPersist == PersistInit /\ [][PersistNext]_vars

\* the object at a key, the empty object when the value there is none
ObjectAt(o, key) == IF is_plain_object(Field(o, key)) THEN Field(o, key) ELSE EmptyObj

\* the document as an object, the empty object when the file held none
DocObject(on_disk) == IF on_disk.kind = "json" /\ is_plain_object(on_disk.doc) THEN on_disk.doc ELSE EmptyObj

\* every key of before outside managed has in after the value it had
KeptOutside(before, after, managed) ==
    \A key \in Keys(before) \ managed : key \in Keys(after) /\ after.v[key] = before.v[key]

\* C21: after a successful persist every top-level key other than skills, every
\* key of skills other than allow, enabled and resolve, and every key of
\* skills.resolve other than node_modules and local_paths has the value it had
\* before the write, and the written enabled list is the sorted in-memory
\* enabled set restricted to the allow-list.
C21_PersistPreservesSiblings ==
    (last.op = "persist" /\ last.err = "") =>
        LET before == DocObject(last.before)
            after == DocObject(file)
        IN /\ file.kind = "json"
           /\ KeptOutside(before, after, {"skills"})
           /\ KeptOutside(ObjectAt(before, "skills"), ObjectAt(after, "skills"), {"allow", "enabled", "resolve"})
           /\ KeptOutside(ObjectAt(ObjectAt(before, "skills"), "resolve"),
                          ObjectAt(ObjectAt(after, "skills"), "resolve"), {"node_modules", "local_paths"})
           /\ Field(ObjectAt(after, "skills"), "enabled")
                 = StrArr(SelectSeq(NameOrder, LAMBDA id : InSeq(enabled, id) /\ InSeq(config.allow, id)))
           /\ Field(ObjectAt(after, "skills"), "allow") = StrArr(config.allow)

\* a document with siblings at all three levels was rewritten while s3 was enabled but not allowed
C21_Witness ==
    /\ last.op = "persist" /\ last.err = ""
    /\ Field(DocObject(last.before), "enabled") = Str("top")
    /\ Field(ObjectAt(ObjectAt(DocObject(file), "skills"), "resolve"), "registry") = Str("https://r")
    /\ Field(ObjectAt(DocObject(file), "skills"), "enabled") = StrArr(<<"s2">>)
    /\ enabled = <<"s3", "s1", "s2">>

(***************************************************************************)
(* Reading the context of a command: root-level and parameter-level        *)
(* carriers (guards.ts readCommandCtx).                                    *)
(***************************************************************************)

\* an object of the given fields, fields set to undefined left out
ObjOf(fields) == Obj([x \in {n \in DOMAIN fields : fields[n] # Undef} |-> fields[x]])

CtxActors ==
    {Undef, EmptyObj,
     Obj(("role" :> Str("admin")) @@ ("user_id" :> Str("u1"))),
     Obj(("role" :> Str("customer")) @@ ("channel" :> Str("telegram")))}

\* the carriers a command can hold under _ctx
CtxCarriers ==
    {Undef, Str("ctx"),
     Obj(("_sid" :> Num(5)) @@ ("kernel_cap" :> Num(7)) @@ ("actor" :> Str("admin"))),
     Obj("actor" :> Obj(("source" :> Str("skill:s1")) @@ ("role" :> Num(1))))} \cup
    {ObjOf(("_sid" :> sid) @@ ("kernel_cap" :> cap) @@ ("actor" :> actor)) :
        sid \in {Undef, Str("sid-a"), Str("sid-b")},
        cap \in {Undef, Str(KERNEL_CAP)},
        actor \in CtxActors}

CtxCmds ==
    {ObjOf(("_ctx" :> r) @@ ("_params" :> Obj("_ctx" :> p))) : r \in CtxCarriers, p \in CtxCarriers}
    \cup {ObjOf(("_ctx" :> r) @@ ("_params" :> q)) : r \in CtxCarriers, q \in {Undef, Str("params")}}

CtxInit == GuardsInit

ReadCommandCtx(xcmd) ==
    /\ last' = [op |-> "readCommandCtx", xcmd |-> xcmd, out |-> readCommandCtx(xcmd)]
    /\ UNCHANGED <<manager_vars, kernel_cap_secret, xsettings, settings_meta_by_skill>>

CtxNext == \E xcmd \in CtxCmds : ReadCommandCtx(xcmd)

SpecCtx == CtxInit /\ [][CtxNext]_vars

\* the string a carrier holds under a scalar field, undefined otherwise
ScalarOf(carrier, name) ==
    IF is_plain_object(carrier) /\ Field(carrier, name).k = "str" THEN Field(carrier, name) ELSE Undef

\* the actor a carrier holds: its string fields, undefined when the carrier
\* has no object under actor
ActorOf(carrier) ==
    IF is_plain_object(carrier) /\ is_plain_object(Field(carrier, "actor"))
    THEN StringFields(Field(carrier, "actor"), {"user_id", "role", "channel", "source"})
    ELSE Undef

\* C31: the context read from a command takes each scalar field (_wid, _sid,
\* kernel_cap) from the parameter-level carrier when that carrier has it and
\* from the root-level carrier otherwise; its actor is the parameter-level
\* actor as a whole when there is one, else the root-level actor, else
\* absent; fields of the two actors are never mixed.
C31_ReadCommandCtx ==
    last.op = "readCommandCtx" =>
        LET root == Field(last.xcmd, "_ctx")
            params == ParamsCtx(last.xcmd)
            out == last.out
        IN /\ is_plain_object(out)
           /\ Keys(out) \subseteq {"_wid", "_sid", "kernel_cap", "actor"}
           /\ \A name \in {"_wid", "_sid", "kernel_cap"} :
                 Field(out, name) = Coalesce(ScalarOf(params, name), ScalarOf(root, name))
           /\ Field(out, "actor") =
                 (IF ActorOf(params) # Undef THEN ActorOf(params) ELSE ActorOf(root))

\* both carriers hold a session id and an actor, with different fields, and
\* only the root-level one holds a token
C31_Witness ==
    /\ last.op = "readCommandCtx"
    /\ ScalarOf(Field(last.xcmd, "_ctx"), "_sid") = Str("sid-a")
    /\ ScalarOf(ParamsCtx(last.xcmd), "_sid") = Str("sid-b")
    /\ ScalarOf(Field(last.xcmd, "_ctx"), "kernel_cap") = Str(KERNEL_CAP)
    /\ ScalarOf(ParamsCtx(last.xcmd), "kernel_cap") = Undef
    /\ ActorOf(Field(last.xcmd, "_ctx")) = Obj(("role" :> Str("admin")) @@ ("user_id" :> Str("u1")))
    /\ ActorOf(ParamsCtx(last.xcmd)) = Obj("role" :> Str("customer") @@ "channel" :> Str("telegram"))
    /\ last.out = Obj(("_sid" :> Str("sid-b")) @@ ("kernel_cap" :> Str(KERNEL_CAP))
                      @@ ("actor" :> Obj(("role" :> Str("customer")) @@ ("channel" :> Str("telegram")))))

(***************************************************************************)
(* Commands that overlap: enable and disable are async functions, and a    *)
(* second command may start or resume whenever the first is suspended at   *)
(* an await.  A task is a command in flight: its position (the await it is *)
(* suspended at) and the locals it holds across the await.  One action     *)
(* resumes one task and runs it to its next await.  Reads and writes of    *)
(* the document succeed and the hooks do not throw of their own accord.    *)
(***************************************************************************)

AsyncIds == {"s1", "s2"}
TaskNames == {"t1", "t2"}

\* commands started in one behaviour
MaxStarted == 3

NoDescriptor ==
    [ok |-> FALSE, kind |-> "", version |-> "", capabilities |-> Undef,
     settings_meta |-> NoMeta, has_on_disable |-> FALSE]

\* a command as it is called: nothing captured yet
NewTask(op, id) ==
    [op |-> op, id |-> id, pc |-> "start", was_enabled |-> FALSE, path |-> "",
     existing_source |-> <<>>, source |-> <<>>, specifier |-> <<>>, descriptor |-> NoDescriptor,
     meta |-> NoMeta, has_stored |-> FALSE, runtime |-> <<>>, snapshot |-> <<>>, parsed |-> NoFile]

\* the task is suspended at an await
Suspend(st, task, pc) == [st |-> st, task |-> [task EXCEPT !.pc = pc], err |-> ""]

\* the command settles: its promise resolves or rejects with err
Settle(st, task, err) == [st |-> st, task |-> [task EXCEPT !.pc = "done"], err |-> err]

\* persist_enabled_to_agent_config up to its first await: the enabled list is
\* computed and stored in the configuration, then fs.readFile is awaited
persist_begin(st, task) ==
    LET enabled_list == SelectSeq(sorted_enabled(st), LAMBDA id : InSeq(st.config.allow, id))
    IN Suspend([Trace(st, "persist") EXCEPT !.config.enabled = enabled_list],
               [task EXCEPT !.snapshot = enabled_list], "persist_read")

\* fs.readFile resolved: the document is decoded, the skills section is
\* rebuilt from the list computed before the read, fs.writeFile is awaited
persist_read(st, task) ==
    Suspend(st,
            [task EXCEPT !.parsed =
                [exists |-> TRUE, allow |-> st.config.allow, enabled |-> task.snapshot,
                 node_modules |-> st.config.node_modules, local_paths |-> st.config.local_paths,
                 other |-> IF st.file.exists THEN st.file.other ELSE "none"]],
            "persist_write")

\* a persist that builds the list when the write is made
persist_write_Fresh(st, task) ==
    Settle([st EXCEPT !.file = [task.parsed EXCEPT !.enabled =
                                   SelectSeq(sorted_enabled(st), LAMBDA id : InSeq(st.config.allow, id))]],
           task, "")

\* fs.writeFile resolved: the document holds what the task had built
persist_write(st, task) == Settle([st EXCEPT !.file = task.parsed], task, "")

\* bootstrap_skill_settings_defaults up to its first await (settings.get_skill)
bootstrap_begin(st, task, path, meta) ==
    Suspend(Trace(st, "bootstrap"), [task EXCEPT !.path = path, !.meta = meta], "bootstrap_get_skill")

\* what follows the bootstrap: the module hooks on the fast path, the enable
\* hook on the full path
bootstrap_return(st, task) ==
    Suspend(st, task, IF task.path = "fast" THEN "fast_hooks" ELSE "on_enable")

\* settings.get_skill resolved: without defaults the bootstrap returns, else
\* settings.get reads the skills bucket and is awaited
bootstrap_get_skill(st, task) ==
    LET defaults == IF task.meta.present /\ is_plain_object(task.meta.defaults) THEN task.meta.defaults ELSE EmptyObj
    IN IF Keys(defaults) = {} THEN bootstrap_return(st, task)
       ELSE Suspend(st, [task EXCEPT !.has_stored = has_stored(st.xsettings, task.id)], "bootstrap_get")

\* settings.get resolved: with a stored bucket the bootstrap returns, else
\* settings.set_skill writes the defaults and is awaited
bootstrap_get(st, task) ==
    IF task.has_stored THEN bootstrap_return(st, task)
    ELSE Suspend([st EXCEPT !.xsettings =
                     set_skill_impl(st.xsettings, st.settings_meta_by_skill, task.id, task.meta.defaults)],
                 task, "bootstrap_set")

\* settings.set_skill resolved
bootstrap_set(st, task) == bootstrap_return(st, task)

\* enable_impl and enable_skill up to the first await
enable_begin(st, task) ==
    LET id == task.id
        t1 == [task EXCEPT !.was_enabled = InSeq(st.enabled, id),
                           !.existing_source = IF id \in DOMAIN st.loaded THEN st.loaded[id].source ELSE <<>>]
    IN IF ~assert_allowlisted(st.config, id) THEN Settle(st, t1, "E_SKILLS_NOT_ALLOWLISTED")
       ELSE IF id \in DOMAIN st.loaded /\ st.loaded[id].status = "loaded" /\ InSeq(st.enabled, id)
       THEN persist_begin(st, t1)
       ELSE IF id \in DOMAIN st.loaded /\ st.loaded[id].status = "disabled" /\ id \in DOMAIN st.runtime_by_skill
       THEN bootstrap_begin(st, t1, "fast",
                            IF id \in DOMAIN st.settings_meta_by_skill THEN st.settings_meta_by_skill[id] ELSE NoMeta)
       ELSE Suspend(Trace(st, "resolve"), t1, "resolve")

\* call_module_hooks(id, "enable") resolved on the fast path: the id joins the
\* enabled set and the record is written from the runtime record
fast_hooks(st, task) ==
    LET id == task.id
        st1 == call_module_hooks(st, id, "enable")
        runtime_record == st1.runtime_by_skill[id]
    IN persist_begin([Recorded(st1, "enable", id, "loaded") EXCEPT
                         !.enabled = SetAdd(@, id),
                         !.loaded = MapPut(@, id,
                             [version |-> runtime_record.version,
                              enabled |-> TRUE,
                              status |-> "loaded",
                              error |-> "",
                              source |-> IF task.existing_source # <<>> THEN task.existing_source
                                         ELSE runtime_record.source,
                              capabilities |-> runtime_record.capabilities,
                              modules_registered |-> SortNames(ModulesOf(st1, id))])],
                     task)

\* resolve_skill_entry resolved or rejected
resolve_done(st, task) ==
    The({IF ~resolved.ok THEN Settle(st, task, "E_SKILLS_RESOLVE_FAILED")
         ELSE Suspend(Trace(st, "import"),
                      [task EXCEPT !.source = resolved.source, !.specifier = resolved.specifier], "import") :
         resolved \in {resolve_skill_entry(st.config, task.id)}})

\* import() resolved: descriptor and context are made, the try block is
\* entered and the bootstrap is called
import_done(st, task) ==
    The({IF loaded_module.throws THEN Settle(st, task, "SyntaxError")
         ELSE The({IF ~descriptor.ok THEN Settle(st, task, "E_SKILLS_BAD_EXPORT")
                   ELSE bootstrap_begin([st EXCEPT !.contexts = MapPut(@, task.id, descriptor.capabilities),
                                                   !.activating = @ \cup {task.id},
                                                   !.settings_meta_by_skill =
                                                       MapPut(@, task.id, descriptor.settings_meta)],
                                        [task EXCEPT !.descriptor = descriptor],
                                        "full", descriptor.settings_meta) :
                   descriptor \in {resolve_skill_descriptor(task.id, loaded_module)}}) :
         loaded_module \in {ModuleExports(task.specifier)}})

\* descriptor.on_enable(ctx) resolved or rejected: the rest of the try block,
\* or the catch block, and the finally block
on_enable_done(st, task) ==
    LET id == task.id
        descriptor == task.descriptor
    IN The({IF ran.err # ""
            THEN Settle([set_error_state([ran.st EXCEPT !.enabled = SetDelete(@, id)], id, ran.msg, task.source)
                            EXCEPT !.settings_meta_by_skill = MapDel(@, id), !.activating = @ \ {id}],
                        task, ran.err)
            ELSE LET st4 == [Recorded(ran.st, "enable", id, "loaded") EXCEPT !.enabled = SetAdd(@, id)]
                 IN persist_begin([st4 EXCEPT
                        !.runtime_by_skill = MapPut(@, id,
                            [version |-> descriptor.version, kind |-> descriptor.kind,
                             capabilities |-> descriptor.capabilities, source |-> task.source,
                             has_on_disable |-> descriptor.has_on_disable]),
                        !.loaded = MapPut(@, id,
                            [version |-> descriptor.version,
                             enabled |-> TRUE,
                             status |-> "loaded",
                             error |-> "",
                             source |-> task.source,
                             capabilities |-> descriptor.capabilities,
                             modules_registered |-> SortNames(ModulesOf(st4, id))]),
                        !.activating = @ \ {id}], task) :
            ran \in {RunScript(Trace(st, "on_enable"), id, descriptor.capabilities, on_enable_script(id, "ok"))}})

\* disable_impl and disable_skill up to the first await: the runtime record is
\* read, the id leaves the enabled set, the disable hook or the first module
\* op is called
disable_begin(st, task) ==
    LET id == task.id
        t1 == [task EXCEPT !.was_enabled = InSeq(st.enabled, id),
                           !.runtime = [x \in DOMAIN st.runtime_by_skill \cap {id} |-> st.runtime_by_skill[x]]]
        st1 == [st EXCEPT !.enabled = SetDelete(@, id)]
    IN IF ~assert_allowlisted(st.config, id) THEN Settle(st, t1, "E_SKILLS_NOT_ALLOWLISTED")
       ELSE IF id \in DOMAIN st.runtime_by_skill /\ st.runtime_by_skill[id].has_on_disable
       THEN Suspend(Trace(st1, "on_disable"), t1, "on_disable")
       ELSE Suspend(st1, t1, "disable_hooks")

\* runtime_record.on_disable(context) resolved or rejected (a rejection is
\* logged); call_module_hooks(id, "disable") is called
on_disable_done(st, task) ==
    Suspend(HookCalls(st, task.id, task.runtime[task.id].capabilities, on_disable_script(task.id), "on_disable"),
            task, "disable_hooks")

\* call_module_hooks(id, "disable") resolved: the record is written from the
\* runtime record read at the start and the record as it is now
disable_hooks(st, task) ==
    LET id == task.id
        st3 == Recorded(call_module_hooks(st, id, "disable"), "disable", id, "disabled")
        held == [st3 EXCEPT !.runtime_by_skill = task.runtime]
    IN persist_begin([st3 EXCEPT !.loaded = MapPut(@, id,
                         [version |-> RuntimeOrExisting(held, id, "version", ""),
                          enabled |-> FALSE,
                          status |-> "disabled",
                          error |-> "",
                          source |-> ExistingOrRuntimeSource(held, id),
                          capabilities |-> RuntimeOrExisting(held, id, "capabilities", Undef),
                          modules_registered |-> SortNames(ModulesOf(st3, id))])],
                     task)

\* the continuation of a task at each of its positions
Continuation(st, task) ==
    CASE task.pc = "start" /\ task.op = "enable" -> enable_begin(st, task)
      [] task.pc = "start" /\ task.op = "disable" -> disable_begin(st, task)
      [] task.pc = "resolve" -> resolve_done(st, task)
      [] task.pc = "import" -> import_done(st, task)
      [] task.pc = "bootstrap_get_skill" -> bootstrap_get_skill(st, task)
      [] task.pc = "bootstrap_get" -> bootstrap_get(st, task)
      [] task.pc = "bootstrap_set" -> bootstrap_set(st, task)
      [] task.pc = "on_enable" -> on_enable_done(st, task)
      [] task.pc = "fast_hooks" -> fast_hooks(st, task)
      [] task.pc = "on_disable" -> on_disable_done(st, task)
      [] task.pc = "disable_hooks" -> disable_hooks(st, task)
      [] task.pc = "persist_read" -> persist_read(st, task)
      [] task.pc = "persist_write" -> persist_write(st, task)

\* how often a mark of the set is in the trace of a step: 0 or 1
Marked(trace, marks) == IF trace \cap marks # {} THEN 1 ELSE 0

LoadedMarks(id) == {StatusMark("enable", id, from, "loaded") : from \in {"unloaded", "loaded", "disabled", "error"}}

\* what is known of the commands so far: the step taken last, how many
\* commands were started, how often the enable hook of each skill was run
\* and how often its record was written as loaded, the patch an administrator
\* wrote, and for each skill whether a command on it succeeded
AsyncLog(t, out, started) ==
    [op |-> out.task.op, id |-> out.task.id, task |-> t, err |-> out.err,
     settled |-> out.task.pc = "done", snapshot |-> out.task.snapshot,
     started |-> started,
     hook_runs |-> [last.hook_runs EXCEPT ![out.task.id] = @ + Marked(out.st.trace, {"on_enable"})],
     loads |-> [last.loads EXCEPT ![out.task.id] = @ + Marked(out.st.trace, LoadedMarks(out.task.id))],
     written |-> last.written,
     succeeded |-> IF out.task.pc = "done" /\ out.err = "" THEN last.succeeded \cup {out.task.id}
                   ELSE last.succeeded]

AsyncInit ==
    /\ config = read_agent_config(Doc(<<"s1", "s2">>, <<>>, "none"))
    /\ ManagerFields_NoConfig
    /\ file = Doc(<<"s1", "s2">>, <<>>, "none")
    /\ kernel_cap_secret = KERNEL_CAP
    /\ xsettings = EmptyObj
    /\ settings_meta_by_skill = <<>>
    /\ last = [op |-> "init", id |-> "", task |-> "", err |-> "", settled |-> FALSE, snapshot |-> <<>>,
               started |-> 0, hook_runs |-> [id \in AsyncIds |-> 0], loads |-> [id \in AsyncIds |-> 0],
               written |-> Undef, succeeded |-> {}]

\* a step of task t from the state as it is: the task runs to its next await
\* or settles
AsyncStep(t, task, started) ==
    \E out \in {The({Continuation(cur, task) : cur \in {Cur}})} :
        /\ Commit([out.st EXCEPT !.tasks = IF out.task.pc = "done" THEN MapDel(tasks, t)
                                           ELSE MapPut(tasks, t, out.task)])
        /\ last' = AsyncLog(t, out, started)

\* skills.enable / skills.disable arrives from an administrator
StartCommand(t, op, id) ==
    /\ t \notin DOMAIN tasks
    /\ last.started < MaxStarted
    /\ requireKernelCapOrActorRole(kernel_cap_secret, readCommandCtx(SkillsCmd(op, id, AdminCtx)), "admin") = "ok"
    /\ AsyncStep(t, NewTask(op, id), last.started + 1)

\* task t is suspended at the await named pc
Suspended(t, pc) == t \in DOMAIN tasks /\ tasks[t].pc = pc

\* the awaited promise of a suspended task settles and the task goes on:
\* one action for each await
\* resolve_skill_entry settled
ResolveDone(t) ==
    /\ Suspended(t, "resolve")
    /\ AsyncStep(t, tasks[t], last.started)

\* import() settled
ImportDone(t) ==
    /\ Suspended(t, "import")
    /\ AsyncStep(t, tasks[t], last.started)

\* the bootstrap's settings.get_skill settled
BootstrapGetSkillDone(t) ==
    /\ Suspended(t, "bootstrap_get_skill")
    /\ AsyncStep(t, tasks[t], last.started)

\* the bootstrap's settings.get settled
BootstrapGetDone(t) ==
    /\ Suspended(t, "bootstrap_get")
    /\ AsyncStep(t, tasks[t], last.started)

\* the bootstrap's settings.set_skill settled
BootstrapSetDone(t) ==
    /\ Suspended(t, "bootstrap_set")
    /\ AsyncStep(t, tasks[t], last.started)

\* the enable hook settled
OnEnableDone(t) ==
    /\ Suspended(t, "on_enable")
    /\ AsyncStep(t, tasks[t], last.started)

\* call_module_hooks(id, "enable") settled
FastHooksDone(t) ==
    /\ Suspended(t, "fast_hooks")
    /\ AsyncStep(t, tasks[t], last.started)

\* the disable hook settled
OnDisableDone(t) ==
    /\ Suspended(t, "on_disable")
    /\ AsyncStep(t, tasks[t], last.started)

\* call_module_hooks(id, "disable") settled
DisableHooksDone(t) ==
    /\ Suspended(t, "disable_hooks")
    /\ AsyncStep(t, tasks[t], last.started)

\* fs.readFile settled
PersistReadDone(t) ==
    /\ Suspended(t, "persist_read")
    /\ AsyncStep(t, tasks[t], last.started)

\* fs.writeFile settled
PersistWriteDone(t) ==
    /\ Suspended(t, "persist_write")
    /\ AsyncStep(t, tasks[t], last.started)

\* the patch the administrator writes
AdminPatch == Obj("mode" :> Str("webhook"))

\* settings.set_skill by an administrator (a synchronous op)
AdminSetSkill ==
    /\ xsettings' = set_skill_impl(xsettings, settings_meta_by_skill, SettingsSkill, AdminPatch)
    /\ last' = [last EXCEPT !.op = "set_skill", !.id = SettingsSkill, !.task = "", !.err = "",
                            !.settled = FALSE, !.written = AdminPatch]
    /\ UNCHANGED <<kernel_cap_secret, manager_vars, settings_meta_by_skill>>

AsyncNext ==
    \/ \E t \in TaskNames, op \in {"enable", "disable"}, id \in AsyncIds : StartCommand(t, op, id)
    \/ \E t \in TaskNames : ResolveDone(t)
    \/ \E t \in TaskNames : ImportDone(t)
    \/ \E t \in TaskNames : BootstrapGetSkillDone(t)
    \/ \E t \in TaskNames : BootstrapGetDone(t)
    \/ \E t \in TaskNames : BootstrapSetDone(t)
    \/ \E t \in TaskNames : OnEnableDone(t)
    \/ \E t \in TaskNames : FastHooksDone(t)
    \/ \E t \in TaskNames : OnDisableDone(t)
    \/ \E t \in TaskNames : DisableHooksDone(t)
    \/ \E t \in TaskNames : PersistReadDone(t)
    \/ \E t \in TaskNames : PersistWriteDone(t)
    \/ AdminSetSkill

SpecAsync == AsyncInit /\ [][AsyncNext]_vars

\* no command is in flight
Quiescent == tasks = <<>>

\* the record of a skill shows it loaded and enabled
ShownEnabled(id) == id \in DOMAIN loaded /\ loaded[id].status = "loaded" /\ loaded[id].enabled

\* C32: persist writes the enabled list it computed before it awaited the
\* read of the document, so of two commands on different ids suspended inside
\* their persist steps the one that writes last can write a list the other
\* command has made stale: both commands succeed and the document's enabled
\* list differs from the enabled set (C32_Witness is such a state).
C32_PersistWritesEarlierList ==
    (last.op \in {"enable", "disable"} /\ last.settled /\ last.err = "") =>
        /\ file.exists
        /\ file.enabled = last.snapshot

\* two commands were started, enable(s1) and enable(s2); both succeeded, both
\* skills are enabled and loaded, and the document lists only one of them
C32_Witness ==
    /\ Quiescent
    /\ last.started = 2
    /\ last.succeeded = {"s1", "s2"}
    /\ SetOf(enabled) = {"s1", "s2"}
    /\ ShownEnabled("s1") /\ ShownEnabled("s2")
    /\ file.enabled = <<"s1">>

\* C33: when no command is in flight, every value the administrator wrote
\* into the bucket of the skill is still stored there, whatever the order in
\* which the steps of enable commands and the write were taken.
C33_AdminEditsKept ==
    (Quiescent /\ last.written # Undef) =>
        \A key \in Keys(last.written) : Field(Bucket(SettingsSkill), key) = last.written.v[key]

\* C33 with commands that do not overlap the write: an administrator wrote
\* while no command was suspended inside the bootstrap, and the value is kept
C33_KeptOutsideBootstrap ==
    (last.written # Undef /\ last.op = "set_skill") =>
        \A key \in Keys(last.written) : Field(Bucket(SettingsSkill), key) = last.written.v[key]

\* C35: when no command is in flight, a skill is in the enabled set exactly
\* when its record shows status loaded and enabled, and its enable hook has
\* run no more often than its record was written as loaded, also after
\* enable and disable commands for the same id overlapped.
C35_OverlapStaysConsistent ==
    Quiescent =>
        \A id \in AsyncIds :
            /\ InSeq(enabled, id) <=> ShownEnabled(id)
            /\ last.hook_runs[id] <= last.loads[id]

\* the administrator's value was written while enable(s1) was suspended
\* between the bootstrap's read of the bucket and its write of the defaults;
\* the command succeeded and the bucket holds the default instead
C33_Clobbered ==
    /\ Quiescent
    /\ last.started = 1
    /\ last.succeeded = {SettingsSkill}
    /\ last.written = AdminPatch
    /\ Field(Bucket(SettingsSkill), "mode") = Str("polling")

\* three commands on s1, an enable and a disable among them overlapping, have
\* all succeeded: s1 is in the enabled set and in the document's list, its
\* record says disabled, and the enable hook ran twice
C35_EnabledButDisabled ==
    /\ Quiescent
    /\ last.started = 3
    /\ last.succeeded = {"s1"}
    /\ InSeq(enabled, "s1")
    /\ loaded["s1"].status = "disabled" /\ ~loaded["s1"].enabled
    /\ last.hook_runs["s1"] = 2
    /\ file.enabled = <<"s1">>

\* C34: whenever no enable, disable or reload is in progress, a skill id is in
\* the enabled set exactly when its record has status loaded and enabled
\* true, a record with status error or disabled has enabled false, and the
\* activating set is empty.
C34_EnabledMatchesRecords ==
    Quiescent =>
        /\ \A id \in SetOf(enabled) \cup DOMAIN loaded : InSeq(enabled, id) <=> ShownEnabled(id)
        /\ \A id \in DOMAIN loaded : loaded[id].status \in {"error", "disabled"} => ~loaded[id].enabled
        /\ \A id \in DOMAIN loaded : loaded[id].status \in {"loaded", "error", "disabled"}
        /\ activating = {}

(***************************************************************************)
(* Settings of a skill across its lifecycle: an administrator reads and    *)
(* writes the bucket of s1 through the settings module while s1 is not yet *)
(* loaded, loaded, disabled, or in error after a failed enable.            *)
(***************************************************************************)

\* what the administrator writes: a token, the sentinel in its place, a
\* setting that is not sensitive
LifecyclePatches ==
    {Obj("bot_token" :> Str("123:abc")), Obj("bot_token" :> Str(MASK_SENTINEL)), Obj("mode" :> Str("webhook"))}

LifecycleEnvs == {Env(FALSE, FALSE, h) : h \in HookVariants}

LifecycleInit == DefaultsInit

LifecycleNext ==
    \/ ReloadEnabled(KernelCtx, Quiet)
    \/ \E env \in LifecycleEnvs : Enable(SettingsSkill, AdminCtx, env)
    \/ Disable(SettingsSkill, AdminCtx, Quiet)
    \/ \E include_masked \in BOOLEAN : SettingsGetSkill(include_masked)
    \/ \E patch \in LifecyclePatches : SettingsSetSkill(patch)
    \/ SettingsResetSkill(SettingsSkill)

SpecLifecycle == LifecycleInit /\ [][LifecycleNext]_vars

\* the sensitive paths the package of a skill declares in its descriptor
PackageSensitive(skill_id) ==
    LET resolved == resolve_skill_entry(config, skill_id)
        declared == IF resolved.ok THEN ModuleExports(resolved.specifier).settings.sensitive ELSE <<>>
    IN {declared[i] : i \in 1..Len(declared)}

\* the lifecycle state of a skill
LifecycleState(skill_id) == IF skill_id \in DOMAIN loaded THEN loaded[skill_id].status ELSE "unloaded"

\* C36: a masked read of the settings of a skill returns the sentinel at
\* every sensitive path its package declares whose stored value is non-empty,
\* whatever the lifecycle state of the skill: not yet loaded, loaded,
\* disabled, or in error after a failed enable.
C36_MaskedInEveryState ==
    (last.op = "get_skill" /\ last.include_masked) =>
        \A p \in PackageSensitive(SettingsSkill) :
            ~IsEmptyValue(getByPath(Bucket(SettingsSkill), p)) =>
                getByPath(last.result.settings, p) = Str(MASK_SENTINEL)

\* C36 where the metadata of the skill is cached (loaded, disabled)
C36_MaskedWhileCached ==
    (last.op = "get_skill" /\ last.include_masked /\ SettingsSkill \in DOMAIN settings_meta_by_skill) =>
        \A p \in PackageSensitive(SettingsSkill) :
            ~IsEmptyValue(getByPath(Bucket(SettingsSkill), p)) =>
                getByPath(last.result.settings, p) = Str(MASK_SENTINEL)

\* a masked read returned the stored token of a skill in error
C36_TokenShown ==
    /\ last.op = "get_skill" /\ last.include_masked
    /\ LifecycleState(SettingsSkill) = "error"
    /\ getByPath(last.result.settings, <<"bot_token">>) = Str("123:abc")

\* C37: a write whose patch holds the sentinel at a sensitive path the
\* package declares, where a real value is stored, leaves that value stored,
\* whatever the lifecycle state of the skill.
C37_SentinelKeepsSecret ==
    last.op = "set_skill" =>
        \A p \in PackageSensitive(SettingsSkill) :
            (/\ getByPath(last.patch, p) = Str(MASK_SENTINEL)
             /\ ~IsEmptyValue(getByPath(last.before, p))
             /\ getByPath(last.before, p) # Str(MASK_SENTINEL)) =>
                getByPath(Bucket(SettingsSkill), p) = getByPath(last.before, p)

\* C37 where the metadata of the skill is cached (loaded, disabled)
C37_KeptWhileCached ==
    (last.op = "set_skill" /\ SettingsSkill \in DOMAIN settings_meta_by_skill) =>
        \A p \in PackageSensitive(SettingsSkill) :
            (/\ getByPath(last.patch, p) = Str(MASK_SENTINEL)
             /\ ~IsEmptyValue(getByPath(last.before, p))
             /\ getByPath(last.before, p) # Str(MASK_SENTINEL)) =>
                getByPath(Bucket(SettingsSkill), p) = getByPath(last.before, p)

\* the sentinel was written over the stored token of a skill in error
C37_SecretReplaced ==
    /\ last.op = "set_skill"
    /\ LifecycleState(SettingsSkill) = "error"
    /\ getByPath(last.before, <<"bot_token">>) = Str("123:abc")
    /\ getByPath(Bucket(SettingsSkill), <<"bot_token">>) = Str(MASK_SENTINEL)

\* the sentinel was sent back for a loaded skill and the token stayed
C37_SecretKept ==
    /\ last.op = "set_skill"
    /\ LifecycleState(SettingsSkill) = "loaded"
    /\ last.patch = Obj("bot_token" :> Str(MASK_SENTINEL))
    /\ getByPath(last.before, <<"bot_token">>) = Str("123:abc")
    /\ getByPath(Bucket(SettingsSkill), <<"bot_token">>) = Str("123:abc")

-----------------------------------------------------------------------------
(* A skill reaching privileged operations through its sandbox: the command
   that execute builds is run by the operation it names *)

SandboxTargets == {<<"skills", "enable">>, <<"skills", "disable">>, <<"skills", "reload_enabled">>,
                   <<"settings", "set_skill">>, <<"settings", "get">>}

\* the operations whose guard is requireKernelCap alone
CapabilityOnlyOps == {"skills.reload_enabled"}

\* the operations whose guard is requireKernelCapOrActorRole(ctx, "admin")
CapabilityOrAdminOps == {"skills.enable", "skills.disable", "settings.set_skill", "settings.get"}

SandboxPatch == Obj("mode" :> Str("webhook"))

\* the params a skill passes: the target skill for either module, and a patch
SandboxParams(id) == Obj(("id" :> Str(id)) @@ ("skill_id" :> Str(id)) @@ ("patch" :> SandboxPatch))

\* _x.execute: the operation named by the command runs on the command
dispatch(st, secret, cmd) ==
    LET params == Field(cmd, "_params")
    IN CASE ForwardedOp(cmd) = "skills.enable" -> enable_impl(st, secret, cmd, Quiet)
         [] ForwardedOp(cmd) = "skills.disable" -> disable_impl(st, secret, cmd, Quiet)
         [] ForwardedOp(cmd) = "skills.reload_enabled" ->
               Impl(reload_enabled_impl(st, secret, cmd, Quiet), FALSE)
         [] ForwardedOp(cmd) = "settings.set_skill" ->
               IF requireKernelCapOrActorRole(secret, readCommandCtx(cmd), "admin") # "ok"
               THEN Impl(Res(st, "E_AGENT_FORBIDDEN", "forbidden", "", ""), FALSE)
               ELSE Impl(Done([st EXCEPT !.xsettings =
                                   set_skill_impl(st.xsettings, st.settings_meta_by_skill,
                                                  Field(params, "skill_id").v,
                                                  Coalesce(Field(params, "patch"), EmptyObj))], ""), FALSE)
         [] ForwardedOp(cmd) = "settings.get" ->
               IF requireKernelCapOrActorRole(secret, readCommandCtx(cmd), "admin") # "ok"
               THEN Impl(Res(st, "E_AGENT_FORBIDDEN", "forbidden", "", ""), FALSE)
               ELSE Impl(Done(st, ""), FALSE)
         [] OTHER -> Impl(Res(st, "E_XPELL_NO_OP", "unknown operation", "", ""), FALSE)

\* a skill calls ctx.execute(module, op, params) and the dispatcher runs the command
SandboxCommand(skill_id, target, id) ==
    /\ skill_id \in DOMAIN contexts
    /\ \E sent \in {The({execute(cur, skill_id, contexts[skill_id], target[1], target[2],
                                 SandboxParams(id), Undef) : cur \in {Cur}})} :
       \E out \in {IF sent.err # "" THEN Impl(sent, FALSE)
                   ELSE The({dispatch(sent.st, kernel_cap_secret, d.cmd) : d \in sent.st.dispatched})} :
          /\ Commit(out.st)
          /\ last' = [op |-> "sandbox", id |-> skill_id, target |-> op_key(target[1], target[2]),
                      target_id |-> id, sent |-> sent.err = "",
                      has_token |-> \E d \in sent.st.dispatched : HasToken(d.cmd),
                      was_enabled |-> InSeq(enabled, id),
                      bucket_before |-> Field(xsettings, id),
                      err |-> out.err]

SandboxNext ==
    \/ ReloadEnabled(KernelCtx, Quiet)
    \/ \E id \in PrivilegeIds : Enable(id, AdminCtx, Quiet)
    \/ \E id \in PrivilegeIds : Disable(id, AdminCtx, Quiet)
    \/ \E skill_id \in PrivilegeIds, target \in SandboxTargets, id \in PrivilegeIds :
          SandboxCommand(skill_id, target, id)

SpecSandbox == PrivilegesInit /\ [][SandboxNext]_vars

\* the op of the last sandbox call is in the kernel_ops its skill declared
DeclaredOp(skill_id, op_name) ==
    \E i \in 1..Len(DeclaredKernelOps(skill_id)) : DeclaredKernelOps(skill_id)[i] = op_name

\* a sandbox call of a privileged op outside the caller's kernel_ops reached the dispatcher
UndeclaredPrivilegedCall ==
    /\ last.op = "sandbox"
    /\ last.sent
    /\ ~DeclaredOp(last.id, last.target)
    /\ last.target \in CapabilityOnlyOps \cup CapabilityOrAdminOps

\* C38: a sandbox execute of an op that is not in the skill's kernel_ops is
\* rejected with E_AGENT_FORBIDDEN by every privileged target operation, those
\* guarded by requireKernelCap and those guarded by
\* requireKernelCapOrActorRole(ctx, "admin") alike.
C38_UndeclaredOpsForbidden == UndeclaredPrivilegedCall => last.err = "E_AGENT_FORBIDDEN"

\* the same for the operations guarded by requireKernelCap alone; an
\* undeclared op never carries the token
C38_CapabilityOnlyForbidden ==
    UndeclaredPrivilegedCall =>
        /\ ~last.has_token
        /\ last.target \in CapabilityOnlyOps => last.err = "E_AGENT_FORBIDDEN"

\* a skill that declares no kernel_ops has disabled another skill through its sandbox
C38_LegacySkillDisabledAnother ==
    /\ UndeclaredPrivilegedCall
    /\ last.id = "s2" /\ last.target = "skills.disable" /\ last.target_id = "s1"
    /\ DeclaredKernelOps("s2") = <<>>
    /\ last.was_enabled /\ ~InSeq(enabled, "s1")
    /\ last.err = ""

\* a skill has written another skill's settings through its sandbox without the token
C38_SettingsWritten ==
    /\ UndeclaredPrivilegedCall
    /\ last.target = "settings.set_skill" /\ last.id # last.target_id
    /\ ~last.has_token
    /\ last.err = ""
    /\ Field(xsettings, last.target_id) # last.bucket_before

-----------------------------------------------------------------------------
(* disable of a skill that is not enabled *)

\* the last command was an admitted disable of an allow-listed id that was
\* not in the enabled set when the command arrived
DisableOfNotEnabled ==
    /\ last'.op = "disable" /\ Admitted(last')
    /\ InSeq(config.allow, last'.id)
    /\ ~InSeq(enabled, last'.id)

\* C39: disable(id) on a skill that is not in the enabled set invokes neither
\* the skill's disable hook nor the disable op of a module it owns, and
\* leaves the enabled set and the ownership maps unchanged.
C39_DisableHookOncePerTransition ==
    [][DisableOfNotEnabled =>
          /\ "on_disable" \notin last'.trace
          /\ \A module_name \in module_to_skill_inverse(last'.id) :
                ("module_op:" \o op_key(module_name, "disable")) \notin last'.trace
          /\ UNCHANGED <<enabled, skill_to_modules, module_to_skill>>]_vars

\* the part about the enabled set and the ownership maps; the hook and the
\* module ops run exactly when a runtime record with a disable hook is kept
\* and for every module still owned
C39_HooksFollowRecords ==
    [][DisableOfNotEnabled =>
          /\ UNCHANGED <<enabled, skill_to_modules, module_to_skill>>
          /\ "on_disable" \in last'.trace <=>
                (last'.id \in DOMAIN runtime_by_skill /\ runtime_by_skill[last'.id].has_on_disable)
          /\ \A module_name \in module_to_skill_inverse(last'.id) :
                ("module_op:" \o op_key(module_name, "disable")) \in last'.trace]_vars

\* a disable of a skill whose record already has status=disabled leaves the
\* disable hook alone
C39_NoSecondHookRun ==
    [][~(/\ DisableOfNotEnabled
         /\ last'.id \in DOMAIN loaded /\ loaded[last'.id].status = "disabled"
         /\ "on_disable" \in last'.trace)]_vars

-----------------------------------------------------------------------------
(* The context a sandbox execute attaches *)

FnValue == [k |-> "fn", v |-> "fn"]

\* params of a skill that sets its own context: the installed token and an owner actor
ForgedTokenParams ==
    Obj(("id" :> Str("s1"))
        @@ ("_ctx" :> Obj(("kernel_cap" :> Str(KERNEL_CAP))
                          @@ ("actor" :> Obj(("role" :> Str("owner")) @@ ("user_id" :> Str("u_owner")))))))

ExecParams == {Undef, EmptyObj, ForgedParams, ForgedTokenParams, Str("id=s1"), Obj("cb" :> FnValue)}

ExecMetas == {Undef, Obj("trace_id" :> Str("t-1")), Obj("cb" :> FnValue),
              Arr(<<Obj("cb" :> FnValue)>>), Str("note")}

\* a skill calls ctx.execute(module, op, params, meta)
SandboxExecuteMeta(skill_id, target, params, meta) ==
    /\ skill_id \in DOMAIN contexts
    /\ \E out \in {The({execute(cur, skill_id, contexts[skill_id], target[1], target[2], params, meta) :
                        cur \in {Cur}})} :
          /\ Commit(out.st)
          /\ last' = [op |-> "execute_meta", id |-> skill_id, module |-> target[1], target_op |-> target[2],
                      params |-> params, meta |-> meta,
                      gate |-> assert_skill_enabled_for_callback(Cur, skill_id),
                      err |-> out.err]

AttributionNext ==
    \/ ReloadEnabled(KernelCtx, Quiet)
    \/ \E id \in PrivilegeIds : Enable(id, AdminCtx, Quiet)
    \/ \E id \in PrivilegeIds : Disable(id, AdminCtx, Quiet)
    \/ \E skill_id \in PrivilegeIds, target \in ExecTargets, params \in ExecParams, meta \in ExecMetas :
          SandboxExecuteMeta(skill_id, target, params, meta)

SpecAttribution == PrivilegesInit /\ [][AttributionNext]_vars

\* the actor execute attaches for a skill
SkillActor(skill_id) == Obj(("role" :> Str("system")) @@ ("source" :> Str("skill:" \o skill_id)))

\* the parameter-level context of a forwarded command
SentCtx(cmd) == Field(Field(cmd, "_params"), "_ctx")

\* C40: every command a sandbox execute forwards has a parameter-level
\* context whose actor is role system with source skill:<calling skill id>,
\* also as the guards read it; nothing of a _ctx the skill put in params
\* survives (a kernel_cap is present only as the installed token on a declared
\* op, the other fields of params are kept); a meta containing a function is
\* rejected before anything is dispatched, with E_SKILLS_BAD_PARAMS once the
\* skill has passed the enabled gate.
C40_CallsAttributedToSkill ==
    last.op = "execute_meta" =>
        /\ \A d \in dispatched :
              /\ d.skill = last.id
              /\ last.err = ""
              /\ Field(SentCtx(d.cmd), "actor") = SkillActor(last.id)
              /\ Field(readCommandCtx(d.cmd), "actor") = SkillActor(last.id)
              /\ Keys(SentCtx(d.cmd)) \subseteq {"actor", "kernel_cap", "meta"}
              /\ "kernel_cap" \in Keys(SentCtx(d.cmd)) =>
                    /\ Field(SentCtx(d.cmd), "kernel_cap") = Str(kernel_cap_secret)
                    /\ DeclaredOp(last.id, ForwardedOp(d.cmd))
              /\ Field(SentCtx(d.cmd), "meta") = last.meta
              /\ \A key \in Keys(Coalesce(last.params, EmptyObj)) \ {"_ctx"} :
                    Field(Field(d.cmd, "_params"), key) = Field(last.params, key)
        /\ last.err = "" => Cardinality(dispatched) = 1
        /\ last.err # "" => dispatched = {}
        /\ (last.meta # Undef /\ has_function(last.meta)) =>
              /\ dispatched = {}
              /\ last.err = IF last.gate THEN "E_SKILLS_BAD_PARAMS" ELSE "E_SKILLS_DISABLED"

\* s2, which declares no kernel_ops, called skills.list with the installed
\* token and an owner actor in params._ctx: the forwarded command names s2 as
\* its actor and carries no token
C40_Witness ==
    /\ last.op = "execute_meta" /\ last.id = "s2" /\ last.err = ""
    /\ last.params = ForgedTokenParams
    /\ last.meta = Obj("trace_id" :> Str("t-1"))
    /\ \E d \in dispatched :
          /\ ForwardedOp(d.cmd) = "skills.list"
          /\ ~HasToken(d.cmd)
          /\ Field(readCommandCtx(d.cmd), "actor") = SkillActor("s2")
          /\ Field(Field(d.cmd, "_params"), "id") = Str("s1")

\* an enabled skill passed a meta holding a function and was refused
C40_MetaRefused ==
    /\ last.op = "execute_meta" /\ last.gate
    /\ last.params = ForgedTokenParams
    /\ last.meta = Obj("cb" :> FnValue)
    /\ last.err = "E_SKILLS_BAD_PARAMS"
    /\ dispatched = {}

====
